---- MODULE Spec2Model ----
(***************************************************************************)
(* A model of the PeopleSoft Discord bot: the paginator view               *)
(* (embed_pages.py), the PSMobile scraper (peoplesoft.py) and the command  *)
(* layer (main.py).                                                        *)
(***************************************************************************)
EXTENDS Integers, Sequences, FiniteSets, TLC

\* ------------------------------------------------------------------------
\* Bounds of the model
\* ------------------------------------------------------------------------
MaxPages == 3
MaxInFlight == 2
MaxDrift == 1
MaxDivs == 3
MaxDropped == 1
MaxArgs == 4
MaxCalls == 2
MaxLen == 6

Views == {"v1", "v2"}
Users == {"alice", "bob"}
Buttons == {"prev", "next"}
None == "None"

VARIABLES
    views,          \* the EmbedPages instances that were constructed
    embeds,         \* embeds[v]: len(self.embeds)
    user,           \* user[v]: self.user
    msg,            \* msg[v]: self.msg, the message as last sent or edited
    curr_page,      \* curr_page[v]: self.curr_page
    prev_disabled,  \* prev_disabled[v]: self.prev.disabled
    next_disabled,  \* next_disabled[v]: self.next.disabled
    children,       \* children[v]: the items the view still holds
    finished,       \* finished[v]: the view timed out
    inflight,       \* button interactions sent by clients, not yet dispatched
    handled,        \* the last interaction dispatched and what became of it
    stale           \* stale[v]: a callback ran while its button was disabled

pageVars == <<views, embeds, user, msg, curr_page, prev_disabled, next_disabled,
              children, finished, inflight, handled, stale>>

VARIABLES
    resp,           \* the HTMLResponse handed to _parse_class_search
    term,           \* its term argument
    parsed          \* what the call returned or raised; None before the call

searchVars == <<resp, term, parsed>>

VARIABLES
    class_num,      \* get_section's class_num argument
    sct_term,       \* get_section's term argument
    site,           \* what PSMobile answers to the detail GET
    details         \* what get_section returned or raised; NotCalled before

detailVars == <<class_num, sct_term, site, details>>

VARIABLES
    command,        \* the command of main.py that was invoked
    args,           \* its arguments, as typed
    sent,           \* the messages the invocation sent to the channel
    requests,       \* the HTTP requests the invocation issued
    ran             \* the command's callback has returned

cmdVars == <<command, args, sent, requests, ran>>

VARIABLES
    ncalls,         \* how many calls of get_subject, get_course, get_section were made
    asked,          \* the function last called and its keyword arguments
    answer,         \* the exception that call raised and the requests it issued
    before,         \* the exceptions the calls before it raised
    issued          \* how many CSRF tokens PSMobile has handed out

apiVars == <<ncalls, asked, answer, before, issued>>

VARIABLES
    given,          \* the validator called and its argument
    checked         \* what it returned or raised; NotCalled before the call

validVars == <<given, checked>>

vars == <<pageVars, searchVars, detailVars, cmdVars, apiVars, validVars>>

\* What the paginator's steps leave alone, what the scraper's do, and what
\* the commands' do.
notPage == <<validVars, searchVars, detailVars, cmdVars, apiVars>>

notSearch == <<validVars, pageVars, detailVars, cmdVars, apiVars>>

notDetail == <<validVars, pageVars, searchVars, cmdVars, apiVars>>

notCmd == <<validVars, pageVars, searchVars, detailVars, apiVars>>

notApi == <<pageVars, searchVars, detailVars, cmdVars, validVars>>

notValid == <<pageVars, searchVars, detailVars, cmdVars, apiVars>>

\* The values of the variables of a part that is not in use.
NotCalled == [called |-> FALSE]

NoResp == [no_classes |-> FALSE, too_long |-> FALSE, status_code |-> 200,
           divs |-> <<>>]

SearchIdle == resp = NoResp /\ term = <<>> /\ parsed = NotCalled

NoSite == [up |-> FALSE, page |-> [title |-> "absent", room |-> FALSE, divs |-> <<>>]]

DetailIdle ==
    class_num = <<>> /\ sct_term = <<>> /\ site = NoSite /\ details = NotCalled

CmdIdle ==
    command = None /\ args = <<>> /\ sent = <<>> /\ requests = <<>> /\ ran = FALSE

NotAsked == [fn |-> None, params |-> <<>>]

NoAnswer == [raised |-> [type |-> None, message |-> None], log |-> <<>>]

ApiIdle ==
    /\ ncalls = 0 /\ asked = NotAsked /\ answer = NoAnswer /\ before = {} /\ issued = 0
    /\ given = [fn |-> None, arg |-> <<>>] /\ checked = NotCalled

\* ------------------------------------------------------------------------
\* embed_pages.py
\* ------------------------------------------------------------------------

\* Python's list indexing: self.embeds[i] on a list of n elements. A negative
\* index counts from the end; an index outside [-n, n-1] raises IndexError.
PyIndexError(n, i) == i < -n \/ i >= n

PyIndex(n, i) == IF i < 0 THEN n + i ELSE i

NoMsg == [sent |-> FALSE, page |-> 0, prev_disabled |-> TRUE,
          next_disabled |-> TRUE, items |-> {}]

NoHandled == [view |-> None, user |-> None, btn |-> None, outcome |-> None]

\* EmbedPages.__init__, for every instance of `built`: curr_page = 0, the
\* Previous button is declared disabled, Next is disabled iff there is one page.
EmbedPages_init(built) ==
    /\ views = built
    /\ embeds \in [Views -> 1..MaxPages]
    /\ \A v \in Views \ built : embeds[v] = 1
    /\ user = [v \in Views |-> None]
    /\ msg = [v \in Views |-> NoMsg]
    /\ curr_page = [v \in Views |-> 0]
    /\ prev_disabled = [v \in Views |-> TRUE]
    /\ next_disabled = [v \in Views |-> embeds[v] = 1]
    /\ children = [v \in Views |-> Buttons]
    /\ finished = [v \in Views |-> FALSE]
    /\ inflight = <<>>
    /\ handled = NoHandled
    /\ stale = [v \in Views |-> FALSE]

\* The message as ctx.send / edit_message renders it: embed number p and the
\* view's items with their current disabled flags.
Rendered(v, p, pd, nd) ==
    [sent |-> TRUE, page |-> p, prev_disabled |-> pd, next_disabled |-> nd,
     items |-> children[v]]

\* start sending the last of the pages, embeds[-1].
start_last_page(v, u) ==
    /\ v \in views
    /\ user[v] = None
    /\ user' = [user EXCEPT ![v] = u]
    /\ msg' = [msg EXCEPT ![v] = Rendered(v, embeds[v] - 1, prev_disabled[v],
                                          next_disabled[v])]
    /\ UNCHANGED <<views, embeds, curr_page, prev_disabled, next_disabled,
                   children, finished, inflight, handled, stale>>
    /\ UNCHANGED notPage

\* EmbedPages.start: record the author, send embeds[0] with the view.
start(v, u) ==
    /\ v \in views
    /\ user[v] = None
    /\ user' = [user EXCEPT ![v] = u]
    /\ msg' = [msg EXCEPT ![v] = Rendered(v, 0, prev_disabled[v], next_disabled[v])]
    /\ UNCHANGED <<views, embeds, curr_page, prev_disabled, next_disabled,
                   children, finished, inflight, handled, stale>>
    /\ UNCHANGED notPage

\* A client presses a button it sees enabled on the message of view v; the
\* interaction travels to the bot.
Click(v, u, b) ==
    /\ v \in views
    /\ msg[v].sent
    /\ b \in msg[v].items
    /\ IF b = "prev" THEN ~msg[v].prev_disabled ELSE ~msg[v].next_disabled
    /\ Len(inflight) < MaxInFlight
    /\ inflight' = Append(inflight, [view |-> v, user |-> u, btn |-> b])
    /\ UNCHANGED <<views, embeds, user, msg, curr_page, prev_disabled,
                   next_disabled, children, finished, handled, stale>>
    /\ UNCHANGED notPage

\* A check that lets every user through.
interaction_check_anyone(v, u) == TRUE

\* EmbedPages.interaction_check
interaction_check(v, u) == user[v] = u

\* EmbedPages.prev, the button callback.
prev(v, i) ==
    LET cp == curr_page[v] - 1
        pd == IF cp = 0 THEN TRUE ELSE prev_disabled[v]
        ix == PyIndex(embeds[v], cp)
        ie == PyIndexError(embeds[v], cp)
    IN  /\ curr_page' = [curr_page EXCEPT ![v] = cp]
        /\ next_disabled' = [next_disabled EXCEPT ![v] = FALSE]
        /\ prev_disabled' = [prev_disabled EXCEPT ![v] = pd]
        /\ stale' = [stale EXCEPT ![v] = @ \/ prev_disabled[v]]
        /\ IF ie
           THEN /\ msg' = msg
                /\ handled' = [i EXCEPT !.outcome = "IndexError"]
           ELSE /\ msg' = [msg EXCEPT ![v] = Rendered(v, ix, pd, FALSE)]
                /\ handled' = [i EXCEPT !.outcome = "edited"]

\* next with the last-page test off by one: Next is never disabled.
next_offbyone(v, i) ==
    LET cp == curr_page[v] + 1
        nd == IF cp = embeds[v] THEN TRUE ELSE next_disabled[v]
        ix == PyIndex(embeds[v], cp)
        ie == PyIndexError(embeds[v], cp)
    IN  /\ curr_page' = [curr_page EXCEPT ![v] = cp]
        /\ prev_disabled' = [prev_disabled EXCEPT ![v] = FALSE]
        /\ next_disabled' = [next_disabled EXCEPT ![v] = nd]
        /\ stale' = [stale EXCEPT ![v] = @ \/ next_disabled[v]]
        /\ IF ie
           THEN /\ msg' = msg
                /\ handled' = [i EXCEPT !.outcome = "IndexError"]
           ELSE /\ msg' = [msg EXCEPT ![v] = Rendered(v, ix, FALSE, nd)]
                /\ handled' = [i EXCEPT !.outcome = "edited"]

\* next with curr_page kept on the class: every instance moves.
next_shared(v, i) ==
    LET cp == curr_page[v] + 1
        nd == IF cp = embeds[v] - 1 THEN TRUE ELSE next_disabled[v]
        ix == PyIndex(embeds[v], cp)
        ie == PyIndexError(embeds[v], cp)
    IN  /\ curr_page' = [w \in Views |-> cp]
        /\ prev_disabled' = [prev_disabled EXCEPT ![v] = FALSE]
        /\ next_disabled' = [next_disabled EXCEPT ![v] = nd]
        /\ stale' = [stale EXCEPT ![v] = @ \/ next_disabled[v]]
        /\ IF ie
           THEN /\ msg' = msg
                /\ handled' = [i EXCEPT !.outcome = "IndexError"]
           ELSE /\ msg' = [msg EXCEPT ![v] = Rendered(v, ix, FALSE, nd)]
                /\ handled' = [i EXCEPT !.outcome = "edited"]

\* EmbedPages.next, the button callback.
next(v, i) ==
    LET cp == curr_page[v] + 1
        nd == IF cp = embeds[v] - 1 THEN TRUE ELSE next_disabled[v]
        ix == PyIndex(embeds[v], cp)
        ie == PyIndexError(embeds[v], cp)
    IN  /\ curr_page' = [curr_page EXCEPT ![v] = cp]
        /\ prev_disabled' = [prev_disabled EXCEPT ![v] = FALSE]
        /\ next_disabled' = [next_disabled EXCEPT ![v] = nd]
        /\ stale' = [stale EXCEPT ![v] = @ \/ next_disabled[v]]
        /\ IF ie
           THEN /\ msg' = msg
                /\ handled' = [i EXCEPT !.outcome = "IndexError"]
           ELSE /\ msg' = [msg EXCEPT ![v] = Rendered(v, ix, FALSE, nd)]
                /\ handled' = [i EXCEPT !.outcome = "edited"]

\* The pages the model follows: curr_page is an unbounded Python int, and the
\* model stops following it MaxDrift steps past the first index that raises.
Tracked(v, p) == -embeds[v] - MaxDrift <= p /\ p <= embeds[v] - 1 + MaxDrift

\* The bot takes the oldest interaction: a view that timed out, or that no
\* longer holds the item, gets nothing; otherwise interaction_check decides
\* whether the item's callback runs.
Dispatch ==
    /\ inflight # <<>>
    /\ inflight' = Tail(inflight)
    /\ LET i == Head(inflight) @@ [outcome |-> None]
           v == i.view
       IN  IF finished[v] \/ i.btn \notin children[v]
           THEN /\ handled' = [i EXCEPT !.outcome = "dropped"]
                /\ UNCHANGED <<msg, curr_page, prev_disabled, next_disabled, stale>>
           ELSE IF ~interaction_check(v, i.user)
           THEN /\ handled' = [i EXCEPT !.outcome = "rejected"]
                /\ UNCHANGED <<msg, curr_page, prev_disabled, next_disabled, stale>>
           ELSE /\ Tracked(v, IF i.btn = "prev" THEN curr_page[v] - 1
                                                   ELSE curr_page[v] + 1)
                /\ IF i.btn = "prev" THEN prev(v, i) ELSE next(v, i)
    /\ UNCHANGED <<views, embeds, user, children, finished>>
    /\ UNCHANGED notPage

\* on_timeout that forgets to remove the Next button.
on_timeout_keeps_next(v) ==
    /\ v \in views
    /\ msg[v].sent
    /\ ~finished[v]
    /\ finished' = [finished EXCEPT ![v] = TRUE]
    /\ children' = [children EXCEPT ![v] = @ \ {"prev"}]
    /\ msg' = [msg EXCEPT ![v].items = children[v] \ {"prev"}]
    /\ UNCHANGED <<views, embeds, user, curr_page, prev_disabled, next_disabled,
                   inflight, handled, stale>>
    /\ UNCHANGED notPage

\* EmbedPages.on_timeout: the idle view expires; both buttons are removed and
\* the message is edited with the emptied view (its embed is not touched).
on_timeout(v) ==
    /\ v \in views
    /\ msg[v].sent
    /\ ~finished[v]
    /\ finished' = [finished EXCEPT ![v] = TRUE]
    /\ children' = [children EXCEPT ![v] = (@ \ {"prev"}) \ {"next"}]
    /\ msg' = [msg EXCEPT ![v].items = (children[v] \ {"prev"}) \ {"next"}]
    /\ UNCHANGED <<views, embeds, user, curr_page, prev_disabled, next_disabled,
                   inflight, handled, stale>>
    /\ UNCHANGED notPage

\* ------------------------------------------------------------------------
\* Python strings the code looks into, as sequences of characters
\* ------------------------------------------------------------------------
Digits == {"0", "1", "2", "3", "4", "5", "6", "7", "8", "9"}

DigitValue ==
    [c \in Digits |->
        CASE c = "0" -> 0 [] c = "1" -> 1 [] c = "2" -> 2 [] c = "3" -> 3
          [] c = "4" -> 4 [] c = "5" -> 5 [] c = "6" -> 6 [] c = "7" -> 7
          [] c = "8" -> 8 [] c = "9" -> 9]

UpperCase ==
    <<"A", "B", "C", "D", "E", "F", "G", "H", "I", "J", "K", "L", "M",
      "N", "O", "P", "Q", "R", "S", "T", "U", "V", "W", "X", "Y", "Z">>

LowerCase ==
    <<"a", "b", "c", "d", "e", "f", "g", "h", "i", "j", "k", "l", "m",
      "n", "o", "p", "q", "r", "s", "t", "u", "v", "w", "x", "y", "z">>

\* The character of `to` at the place c has in `from`; c when it has none.
Translate(c, from, to) ==
    IF \E i \in 1..Len(from) : from[i] = c
    THEN to[CHOOSE i \in 1..Len(from) : from[i] = c]
    ELSE c

\* str.lower() and str.upper()
lower(str) == [k \in 1..Len(str) |-> Translate(str[k], UpperCase, LowerCase)]

upper(str) == [k \in 1..Len(str) |-> Translate(str[k], LowerCase, UpperCase)]

\* str.isalpha(): at least one character and all of them letters.
isalpha(str) ==
    /\ Len(str) > 0
    /\ \A k \in 1..Len(str) :
          \E i \in 1..Len(UpperCase) : str[k] \in {UpperCase[i], LowerCase[i]}

\* str.isdigit(): at least one character and all of them digits.
isdigit(str) == Len(str) > 0 /\ \A k \in 1..Len(str) : str[k] \in Digits

\* str.strip() of blanks.
RECURSIVE strip(_)
strip(str) ==
    IF str = <<>> THEN str
    ELSE IF Head(str) = " " THEN strip(Tail(str))
    ELSE IF str[Len(str)] = " " THEN strip(SubSeq(str, 1, Len(str) - 1))
    ELSE str

\* The value of a string of digits.
RECURSIVE Decimal(_)
Decimal(str) ==
    IF str = <<>> THEN 0
    ELSE 10 * Decimal(SubSeq(str, 1, Len(str) - 1)) + DigitValue[str[Len(str)]]

\* int(str): blanks around the digits are accepted; anything else raises
\* ValueError (int_raises). The pages of the model hold no sign or underscore.
int_raises(str) == ~isdigit(strip(str))

int(str) == Decimal(strip(str))

\* The run of digits of str that starts at position k.
RECURSIVE DigitRun(_, _)
DigitRun(str, k) ==
    IF k > Len(str) \/ str[k] \notin Digits THEN <<>>
    ELSE <<str[k]>> \o DigitRun(str, k + 1)

\* search(r"\d+", str).group(): the leftmost longest run of digits; the empty
\* string stands for "no match" (None).
FirstInt(str) ==
    IF \E k \in 1..Len(str) : str[k] \in Digits
    THEN DigitRun(str, CHOOSE k \in 1..Len(str) :
                        /\ str[k] \in Digits
                        /\ \A j \in 1..(k - 1) : str[j] \notin Digits)
    ELSE <<>>

\* Whether str goes on with word at position k.
HasAt(str, k, word) ==
    /\ k + Len(word) - 1 <= Len(str)
    /\ SubSeq(str, k, k + Len(word) - 1) = word

\* What (?P<units>\d+|\d+ - \d+) units matches at position k of str: the
\* units group, or the empty string.
UnitsAt(str, k) ==
    LET a == DigitRun(str, k)
        b == DigitRun(str, k + Len(a) + 3)
    IN  IF a = <<>> THEN <<>>
        ELSE IF HasAt(str, k + Len(a), <<" ", "u", "n", "i", "t", "s">>) THEN a
        ELSE IF /\ HasAt(str, k + Len(a), <<" ", "-", " ">>)
                /\ b # <<>>
                /\ HasAt(str, k + Len(a) + 3 + Len(b), <<" ", "u", "n", "i", "t", "s">>)
             THEN a \o <<" ", "-", " ">> \o b
        ELSE <<>>

\* search(r"(?P<units>\d+|\d+ - \d+) units", str).group("units"), the empty
\* string standing for "no match".
UnitsSearch(str) ==
    IF \E k \in 1..Len(str) : UnitsAt(str, k) # <<>>
    THEN UnitsAt(str, CHOOSE k \in 1..Len(str) :
                        /\ UnitsAt(str, k) # <<>>
                        /\ \A j \in 1..(k - 1) : UnitsAt(str, j) = <<>>)
    ELSE <<>>

\* str.split(", ")
RECURSIVE split_comma(_, _)
split_comma(str, piece) ==
    IF str = <<>> THEN <<piece>>
    ELSE IF HasAt(str, 1, <<",", " ">>)
    THEN <<piece>> \o split_comma(SubSeq(str, 3, Len(str)), <<>>)
    ELSE split_comma(Tail(str), Append(piece, Head(str)))

\* ------------------------------------------------------------------------
\* peoplesoft.py: search-result extraction
\* ------------------------------------------------------------------------

\* TERMS, the supported term codes by name.
TERMS ==
    (<<"f", "a", "l", "l">> :> <<"2", "2", "3", "1">>) @@ (<<"s", "p", "r", "i", "n", "g">> :> <<"2", "2", "2", "4">>)
    @@ (<<"s", "u", "m", "m", "e", "r">> :> <<"2", "2", "2", "7">>)

CURR_TERM == <<"s", "p", "r", "i", "n", "g">>

CAMPUSES ==
    (<<"m", "a", "i", "n">> :> <<"P", "I", "T">>) @@ (<<"b", "r", "a", "d", "f", "o", "r", "d">> :> <<"U", "P", "B">>)
    @@ (<<"g", "r", "e", "e", "n", "s", "b", "u", "r", "g">> :> <<"U", "P", "G">>)
    @@ (<<"j", "o", "h", "n", "s", "t", "o", "w", "n">> :> <<"U", "P", "J">>)
    @@ (<<"t", "i", "t", "u", "s", "v", "i", "l", "l", "e">> :> <<"U", "P", "T">>)

MAIN_CAMPUS == <<"m", "a", "i", "n">>

CAREERS ==
    (<<"u", "n", "d", "e", "r", "g", "r", "a", "d">> :> <<"U", "G", "R", "D">>) @@ (<<"d", "e", "n", "t", "a", "l">> :> <<"D", "M", "E", "D">>)
    @@ (<<"g", "r", "a", "d">> :> <<"G", "R", "A", "D">>) @@ (<<"l", "a", "w">> :> <<"L", "A", "W">>)
    @@ (<<"m", "e", "d">> :> <<"M", "E", "D", "S">>)

\* dict.values()
Values(d) == {d[k] : k \in DOMAIN d}

TermCodes == Values(TERMS)

\* A Python exception: its class name and its message.
Exc(type, message) == [type |-> type, message |-> message]

NoExc == Exc(None, None)

\* The texts a div of the search response carries, by what the patterns of
\* _parse_class_search find in them: a course header ("CS 0441 - TITLE"), a
\* section with or without the trailing wait-list total, anything else.
HeaderTexts ==
    {[kind |-> "header", course_num |-> n] : n \in {"0441", "0445"}}

SectionTexts ==
    {[kind |-> "section", type |-> "LEC", waitlist |-> w] : w \in BOOLEAN}

JunkText == [kind |-> "junk"]

\* re.search finding nothing (Python's None).
NoMatch == [matched |-> FALSE]

\* The header pattern of lines 232-236, searched in a text: its groups, or
\* None when it does not occur.
HeaderSearch(text) ==
    IF text.kind = "header"
    THEN [subject_code |-> "CS", course_num |-> text.course_num,
          course_title |-> "TITLE"]
    ELSE NoMatch

\* SECTION_REGEX.search: the section layout without the wait-list line; it
\* also occurs in a text that goes on with the wait-list total.
SECTION_REGEX(text) ==
    IF text.kind = "section"
    THEN [section_type |-> text.type, waitlist_size |-> None]
    ELSE NoMatch

\* WAITLIST_REGEX.search: SECTION_REGEX followed by "Wait List Total: n".
WAITLIST_REGEX(text) ==
    IF text.kind = "section" /\ text.waitlist
    THEN [section_type |-> text.type, waitlist_size |-> "3"]
    ELSE NoMatch

\* The divs resp.html.find("div") yields: the value of the class attribute
\* (None when the div has none) and the text. class_num numbers the section a
\* text describes, so that no two sections of a response are equal.
DivClasses == {"secondary-head", "section-content", "section-body", "other"}

DivShapes ==
    [cls : {"secondary-head"}, text : HeaderTexts \cup {JunkText}]
    \cup [cls : {"section-content"}, text : SectionTexts \cup {JunkText}]
    \cup [cls : {"section-body", "other", None}, text : {JunkText}]
    \cup [cls : {"section-body"},
          text : {[kind |-> "section", type |-> "LEC", waitlist |-> FALSE]}]

DivSeqs == UNION {[1..n -> DivShapes] : n \in 0..MaxDivs}

Responses ==
    [no_classes : BOOLEAN, too_long : BOOLEAN, status_code : {200, 204, 503},
     divs : DivSeqs]

\* The state of the loop of lines 226-245: the dict `courses` in insertion
\* order, the course number of the Course `course` refers to (None before the
\* first header), the exception that ended the loop, and how many Course and
\* Section records were constructed.
ParseStart == [courses |-> <<>>, course |-> None, raised |-> NoExc, built |-> 0]

\* courses[key] = value on a Python dict: a new key is appended, an existing
\* key keeps its place and gets the new value.
DictSet(d, key, value) ==
    IF \E k \in 1..Len(d) : d[k].course_num = key
    THEN [k \in 1..Len(d) |-> IF d[k].course_num = key THEN value ELSE d[k]]
    ELSE Append(d, value)

\* course.sections.append(section): `course` is the object last stored under
\* its course number.
AppendSection(d, key, section) ==
    [k \in 1..Len(d) |->
        IF d[k].course_num = key
        THEN [d[k] EXCEPT !.sections = Append(@, section)]
        ELSE d[k]]

\* The class number in the text of div number num: the divs of a response
\* describe sections with the class numbers 27811, 27812, ...
ClassNum(num) ==
    <<"2", "7", "8", "1", CHOOSE c \in Digits : DigitValue[c] = num % 10>>

\* Section(**content, term=term): the record of lines 242 and 244.
Section(content, num, t) ==
    [class_num |-> ClassNum(num), section_type |-> content.section_type,
     term |-> t, waitlist_size |-> content.waitlist_size]

\* Lines 239-245, the section-content branch.
section_content(st, div, num, t) ==
    IF WAITLIST_REGEX(div.text) = NoMatch /\ SECTION_REGEX(div.text) = NoMatch
    THEN [st EXCEPT !.raised = Exc("AttributeError",
                        "'NoneType' object has no attribute 'groupdict'")]
    ELSE IF st.course = None
    THEN [st EXCEPT !.raised = Exc("AttributeError",
                        "'NoneType' object has no attribute 'sections'"),
                    !.built = @ + 1]
    ELSE [st EXCEPT !.courses = AppendSection(@, st.course,
                        Section(IF WAITLIST_REGEX(div.text) = NoMatch
                                THEN SECTION_REGEX(div.text)
                                ELSE WAITLIST_REGEX(div.text), num, t)),
                    !.built = @ + 1]

\* Lines 231-238, the secondary-head branch.
secondary_head(st, div) ==
    IF HeaderSearch(div.text) = NoMatch
    THEN [st EXCEPT !.raised = Exc("AttributeError",
                        "'NoneType' object has no attribute 'groupdict'")]
    ELSE LET content == HeaderSearch(div.text)
             course == content @@ [sections |-> <<>>]
         IN  [st EXCEPT !.courses = DictSet(@, content.course_num, course),
                        !.course = content.course_num,
                        !.built = @ + 1]

\* One pass of the loop body, lines 229-245, on div number num.
parse_div(st, div, num, t) ==
    IF div.cls = None
    THEN [st EXCEPT !.raised = Exc("KeyError", "'class'")]
    ELSE IF div.cls = "section-body" THEN st
    ELSE IF div.cls = "secondary-head" THEN secondary_head(st, div)
    ELSE IF div.cls = "section-content" THEN section_content(st, div, num, t)
    ELSE st

\* The loop of lines 228-245 over divs[from..], stopping at an exception.
RECURSIVE parse_loop(_, _, _, _)
parse_loop(st, divs, from, t) ==
    IF from > Len(divs) \/ st.raised # NoExc
    THEN st
    ELSE parse_loop(parse_div(st, divs[from], from, t), divs, from + 1, t)

\* The guards in another order: the time-out marker is looked for first.
guards_timeout_first(r) ==
    IF r.too_long
    THEN Exc("TimeoutError", "Search response took too long")
    ELSE IF r.no_classes
    THEN Exc("ValueError", "Criteria didn't find any classes")
    ELSE IF r.status_code # 200
    THEN Exc("ConnectionError", "PeopleSoft is unavailable")
    ELSE NoExc

\* The guards without the look for the time-out marker.
guards_no_timeout(r) ==
    IF r.no_classes
    THEN Exc("ValueError", "Criteria didn't find any classes")
    ELSE IF r.status_code # 200
    THEN Exc("ConnectionError", "PeopleSoft is unavailable")
    ELSE NoExc

\* Lines 218-224, the three guards: the exception raised, or NoExc.
guards(r) ==
    IF r.no_classes
    THEN Exc("ValueError", "Criteria didn't find any classes")
    ELSE IF r.too_long
    THEN Exc("TimeoutError", "Search response took too long")
    ELSE IF r.status_code # 200
    THEN Exc("ConnectionError", "PeopleSoft is unavailable")
    ELSE NoExc

\* _parse_class_search(resp, term): the loop state at the return or the raise.
parse_class_search(r, t) ==
    IF guards(r) # NoExc
    THEN [ParseStart EXCEPT !.raised = guards(r)]
    ELSE parse_loop(ParseStart, r.divs, 1, t)

InitSearch ==
    /\ EmbedPages_init({})
    /\ resp \in Responses
    /\ term \in TermCodes
    /\ parsed = NotCalled
    /\ DetailIdle
    /\ CmdIdle
    /\ ApiIdle

\* The call _parse_class_search(resp, term).
CallParse ==
    /\ parsed = NotCalled
    /\ parsed' = parse_class_search(resp, term)
    /\ UNCHANGED <<resp, term>>
    /\ UNCHANGED notSearch

NextSearch == CallParse

SpecSearch == InitSearch /\ [][NextSearch]_vars

\* ------------------------------------------------------------------------
\* peoplesoft.py: detail extraction (get_section)
\* ------------------------------------------------------------------------

\* LABEL_MAP, as its (label, field) items.
LabelItems ==
    {<<"Session", "session">>,
     <<"Class Number", "class_num">>,
     <<"Career", "career">>,
     <<"Dates", "dates">>,
     <<"Units", "units">>,
     <<"Grading", "grading">>,
     <<"Description", "desc">>,
     <<"Add Consent", "consent">>,
     <<"Class Notes", "notes">>,
     <<"Enrollment Requirements", "prereqs">>,
     <<"Class Attributes", "attrs">>,
     <<"Instructor(s)", "instructor">>,
     <<"Meets", "days_times">>,
     <<"Room", "room">>,
     <<"Campus", "campus">>,
     <<"Location", "campus">>,
     <<"Components", "components">>,
     <<"Status", "status">>,
     <<"Seats Taken", "seats_taken">>,
     <<"Seats Open", "seats_open">>,
     <<"Combined Section Capacity", "total_capacity">>,
     <<"Class Capacity", "total_capacity">>,
     <<"Unrestricted Seats", "unrestricted_seats">>,
     <<"Restricted Seats", "restricted_seats">>,
     <<"Wait List Total", "waitlist_size">>,
     <<"Wait List Capacity", "waitlist_capacity">>}

\* LABEL_MAP
LABEL_MAP ==
    [label \in {item[1] : item \in LabelItems} |->
        (CHOOSE item \in LabelItems : item[1] = label)[2]]

\* SCT_DETAIL_INT_FIELD
SCT_DETAIL_INT_FIELD ==
    {"seats_taken", "seats_open", "total_capacity", "unrestricted_seats",
     "restricted_seats", "waitlist_size", "waitlist_capacity"}

\* The fields of SectionDetails that have no default.
RequiredFields ==
    {"subject_code", "course_num", "course_title", "section_num", "term",
     "session", "class_num", "career", "units", "grading",
     "instructor", "days_times", "dates", "room", "campus", "components",
     "status", "seats_taken", "seats_open", "total_capacity",
     "unrestricted_seats", "restricted_seats", "waitlist_size",
     "waitlist_capacity"}

\* The fields of SectionDetails that have a default, with the default.
DefaultFields ==
    [f \in {"desc", "prereqs", "consent", "notes", "attrs", "seat_restrictions",
            "combined_sections"} |-> IF f = "desc" THEN <<>> ELSE None]

\* A div of the detail page: whether it has a role attribute, the first line
\* of its text, the lines after it, and whether COMBINED_REGEX matches the
\* text. Heading texts are compared as wholes; only the lines after the first
\* are looked into.
Heading(text) == [role |-> TRUE, label |-> text, rest |-> <<>>, combined |-> FALSE]

\* str.isupper() of the heading texts of the model.
isupper(text) == text \in {"DISCRETE STRUCTURES FOR CS"}

\* The div of the room link, /html/body/section/section/a/div.
RoomDiv == [role |-> FALSE, label |-> "Room", rest |-> <<<<"S", "E", "N", "S", "Q", " ", "5", "5", "0", "2">>>>, combined |-> FALSE]

\* A cross-listed section as COMBINED_REGEX matches it.
CombinedDiv ==
    [role |-> FALSE, label |-> "ALGORITHMS", rest |-> <<<<"C", "S", " ", "1", "5", "0", "1", " ", "-", " ", "1", "0", "1", "0", "(", "2", "7", "8", "1", "6", ")">>, <<"S", "t", "a", "t", "u", "s", ":", " ", "O", "p", "e", "n">>, <<"S", "e", "a", "t", "s", " ", "T", "a", "k", "e", "n", ":", " ", "3", "0">>, <<"W", "a", "i", "t", " ", "L", "i", "s", "t", " ", "T", "o", "t", "a", "l", ":", " ", "0">>>>,
     combined |-> TRUE]

\* The divs /html/body/section/section/div of a section page: the page of an
\* open section, with `bad` naming a value that is not in its usual form,
\* `restr` the Enrollment Restrictions part (none, one group, one group
\* whose content has no digit, or a second group labelled like a field of
\* the page) and `comb` the Combined Section part.
BaseDivs(bad, restr, comb) ==
    <<
        [role |-> TRUE, label |-> "DISCRETE STRUCTURES FOR CS", rest |-> <<>>, combined |-> FALSE],
        [role |-> TRUE, label |-> "Class Details", rest |-> <<>>, combined |-> FALSE],
        [role |-> FALSE, label |-> "Session", rest |-> <<<<"A", "T">>>>, combined |-> FALSE],
        [role |-> FALSE, label |-> "Class Number", rest |-> <<<<"2", "7", "8", "1", "5">>>>, combined |-> FALSE],
        [role |-> FALSE, label |-> "Career", rest |-> <<<<"U", "G">>>>, combined |-> FALSE],
        [role |-> FALSE, label |-> "Dates", rest |-> <<<<"8", "/", "2", "9">>>>, combined |-> FALSE],
        [role |-> FALSE, label |-> "Units", rest |-> <<IF bad = "units" THEN <<"v", "a", "r", "i", "e", "s">> ELSE <<"3", " ", "u", "n", "i", "t", "s">>>>, combined |-> FALSE],
        [role |-> FALSE, label |-> "Grading", rest |-> <<<<"L", "G">>>>, combined |-> FALSE],
        [role |-> FALSE, label |-> "Description", rest |-> <<<<"t", "e", "x", "t">>>>, combined |-> FALSE],
        [role |-> FALSE, label |-> "Add Consent", rest |-> <<<<"n", "o", "n", "e">>>>, combined |-> FALSE],
        [role |-> FALSE, label |-> "Enrollment Requirements", rest |-> <<<<"P", "R", "E", "Q">>>>, combined |-> FALSE],
        [role |-> FALSE, label |-> "Class Attributes", rest |-> <<<<"D", "S", "A", "S">>, <<"W", "R", "I", "T">>>>, combined |-> FALSE],
        [role |-> TRUE, label |-> "Meeting Information", rest |-> <<>>, combined |-> FALSE],
        [role |-> FALSE, label |-> "Instructor(s)", rest |-> <<<<"S", "t", "a", "f", "f">>>>, combined |-> FALSE],
        [role |-> FALSE, label |-> "Meets", rest |-> <<<<"M", "o", "W", "e">>>>, combined |-> FALSE],
        [role |-> FALSE, label |-> "Campus", rest |-> <<<<"P", "G", "H">>>>, combined |-> FALSE],
        [role |-> FALSE, label |-> "Components", rest |-> <<<<"L", "E", "C", ",", " ", "R", "E", "C">>>>, combined |-> FALSE],
        [role |-> TRUE, label |-> "Class Availability", rest |-> <<>>, combined |-> FALSE],
        [role |-> FALSE, label |-> "Status", rest |-> <<<<"O", "p", "e", "n">>>>, combined |-> FALSE],
        [role |-> FALSE, label |-> "Seats Taken", rest |-> <<<<"3", "0">>>>, combined |-> FALSE],
        [role |-> FALSE, label |-> "Seats Open", rest |-> <<<<"1", "5">>>>, combined |-> FALSE],
        [role |-> FALSE, label |-> IF comb = "none" THEN "Class Capacity" ELSE "Combined Section Capacity", rest |-> <<<<"4", "5">>>>, combined |-> FALSE],
        [role |-> FALSE, label |-> "Unrestricted Seats", rest |-> <<<<"1", "0">>>>, combined |-> FALSE],
        [role |-> FALSE, label |-> "Restricted Seats", rest |-> <<<<"5">>>>, combined |-> FALSE],
        [role |-> FALSE, label |-> "Wait List Total", rest |-> <<IF bad = "int" THEN <<"n", "/", "a">> ELSE <<"7">>>>, combined |-> FALSE],
        [role |-> FALSE, label |-> "Wait List Capacity", rest |-> <<<<"2", "0">>>>, combined |-> FALSE],
        [role |-> FALSE, label |-> "Instruction Mode", rest |-> <<<<"I", "n", " ", "P", "e", "r", "s", "o", "n">>>>, combined |-> FALSE] >>
    \o (IF restr = "none" THEN <<>>
        ELSE <<Heading("Enrollment Restrictions"),
               [role |-> FALSE, label |-> "Veterans",
                rest |-> <<IF restr = "nodigits" THEN <<"o", "p", "e", "n">> ELSE <<"1", "2", " ", "o", "f", " ", "2", "0", " ", "o", "p", "e", "n">>>>,
                combined |-> FALSE]>>
             \o (IF restr = "field"
                 THEN <<[role |-> FALSE, label |-> "Seats Open",
                         rest |-> <<<<"8">>>>, combined |-> FALSE]>>
                 ELSE <<>>))
    \o (IF comb = "none" THEN <<>>
        ELSE <<Heading("Combined Section"),
               IF comb = "ok" THEN CombinedDiv ELSE RoomDiv>>)

\* The page of an open section with a room, no restrictions and no
\* cross-listed section.
BasePage == [title |-> "ok", room |-> TRUE, divs |-> BaseDivs("none", "none", "none")]

\* seq without the elements at the positions of drop.
RECURSIVE Without(_, _, _)
Without(seq, drop, k) ==
    IF k > Len(seq) THEN <<>>
    ELSE (IF k \in drop THEN <<>> ELSE <<seq[k]>>) \o Without(seq, drop, k + 1)

\* The sets of at most k positions among 1..n.
RECURSIVE DropSets(_, _)
DropSets(n, k) ==
    IF k = 0 THEN {{}}
    ELSE DropSets(n, k - 1)
         \cup {d \cup {i} : d \in DropSets(n, k - 1), i \in 1..n}

\* A section page of the model: the title tag, the room link, and the divs of
\* a base page without those at the positions of `dropped`.
DetailPage(ti, ro, bad, restr, comb, dropped) ==
    [title |-> ti, room |-> ro, divs |-> Without(BaseDivs(bad, restr, comb), dropped, 1)]

\* list.insert(i, x), i counted from 0; past the end it appends.
insert(seq, i, x) ==
    IF i >= Len(seq) THEN Append(seq, x)
    ELSE SubSeq(seq, 1, i) \o <<x>> \o SubSeq(seq, i + 1, Len(seq))

\* The position the room div is spliced in at (line 393).
RoomIndex == 15

\* data[key] = value on a Python dict (order plays no part here).
Put(data, key, value) ==
    [x \in DOMAIN data \cup {key} |-> IF x = key THEN value ELSE data[x]]

EmptyDict == [x \in {} |-> None]

AttributeError(what) ==
    Exc("AttributeError", "'NoneType' object has no attribute '" \o what \o "'")

\* CombinedSection(**content, term=term)
CombinedSection(div, t) == [course_name |-> div.label, term |-> t]

\* Lines 405-411: a div under the heading "Combined Section".
combined_block(st, div, t) ==
    LET d1 == IF "combined_sections" \in DOMAIN st.data THEN st.data
              ELSE Put(st.data, "combined_sections", <<>>)
    IN  IF ~div.combined
        THEN [st EXCEPT !.data = d1, !.raised = AttributeError("groupdict")]
        ELSE [st EXCEPT !.data = Put(d1, "combined_sections",
                    Append(d1["combined_sections"], CombinedSection(div, t)))]

\* The label branch storing the content of a label that is not in LABEL_MAP
\* under the label itself.
label_block_keeps_unknown(st, label, content, extra) ==
    IF label \notin DOMAIN LABEL_MAP
    THEN [st EXCEPT !.data = Put(@, label, content)]
    ELSE LET field == LABEL_MAP[label]
         IN  IF field = "components"
             THEN [st EXCEPT !.data = Put(@, field, split_comma(content, <<>>))]
             ELSE IF field = "units"
             THEN IF UnitsSearch(content) = <<>>
                  THEN [st EXCEPT !.raised = AttributeError("group")]
                  ELSE [st EXCEPT !.data = Put(@, field, UnitsSearch(content))]
             ELSE IF field = "attrs"
             THEN [st EXCEPT !.data = Put(@, field, <<content>> \o extra)]
             ELSE IF field \in SCT_DETAIL_INT_FIELD
             THEN IF int_raises(content)
                  THEN [st EXCEPT !.raised =
                            Exc("ValueError", "invalid literal for int() with base 10")]
                  ELSE [st EXCEPT !.data = Put(@, field, int(content))]
             ELSE [st EXCEPT !.data = Put(@, field, content)]

\* Lines 426-438: a label/content div under any other heading.
label_block(st, label, content, extra) ==
    IF label \notin DOMAIN LABEL_MAP THEN st
    ELSE LET field == LABEL_MAP[label]
         IN  IF field = "components"
             THEN [st EXCEPT !.data = Put(@, field, split_comma(content, <<>>))]
             ELSE IF field = "units"
             THEN IF UnitsSearch(content) = <<>>
                  THEN [st EXCEPT !.raised = AttributeError("group")]
                  ELSE [st EXCEPT !.data = Put(@, field, UnitsSearch(content))]
             ELSE IF field = "attrs"
             THEN [st EXCEPT !.data = Put(@, field, <<content>> \o extra)]
             ELSE IF field \in SCT_DETAIL_INT_FIELD
             THEN IF int_raises(content)
                  THEN [st EXCEPT !.raised =
                            Exc("ValueError", "invalid literal for int() with base 10")]
                  ELSE [st EXCEPT !.data = Put(@, field, int(content))]
             ELSE [st EXCEPT !.data = Put(@, field, content)]

\* The restriction branch without its `continue`: a label of LABEL_MAP goes
\* on to set its field.
restriction_block_falls_through(st, label, content) ==
    LET d1 == IF "seat_restrictions" \in DOMAIN st.data THEN st.data
              ELSE Put(st.data, "seat_restrictions", EmptyDict)
    IN  IF FirstInt(content) = <<>>
        THEN [st EXCEPT !.data = d1, !.raised = AttributeError("group")]
        ELSE label_block(
                 [st EXCEPT !.data = Put(d1, "seat_restrictions",
                     Put(d1["seat_restrictions"], label, int(FirstInt(content))))],
                 label, content, <<>>)

\* Lines 418-424: a label/content div under "Enrollment Restrictions".
restriction_block(st, label, content) ==
    LET d1 == IF "seat_restrictions" \in DOMAIN st.data THEN st.data
              ELSE Put(st.data, "seat_restrictions", EmptyDict)
    IN  IF FirstInt(content) = <<>>
        THEN [st EXCEPT !.data = d1, !.raised = AttributeError("group")]
        ELSE [st EXCEPT !.data = Put(d1, "seat_restrictions",
                    Put(d1["seat_restrictions"], label, int(FirstInt(content))))]

\* One pass of the loop body, lines 397-438.
detail_div(st, div, t) ==
    IF div.role
    THEN [st EXCEPT !.heading = div.label,
                    !.data = IF isupper(div.label)
                             THEN Put(@, "course_title", div.label) ELSE @]
    ELSE IF st.heading = "Combined Section" THEN combined_block(st, div, t)
    ELSE IF div.rest = <<>> THEN st
    ELSE IF st.heading = "Enrollment Restrictions"
    THEN restriction_block(st, div.label, div.rest[1])
    ELSE label_block(st, div.label, div.rest[1], Tail(div.rest))

\* The loop of lines 397-438 over elements[from..], stopping at an exception.
RECURSIVE detail_loop(_, _, _, _)
detail_loop(st, elements, from, t) ==
    IF from > Len(elements) \/ st.raised # NoExc
    THEN st
    ELSE detail_loop(detail_div(st, elements[from], t), elements, from + 1, t)

\* _validate_section accepting shorter numbers too.
validate_section_upto5(cn) ==
    IF ~isdigit(cn) \/ Len(cn) > 5
    THEN Exc("ValueError", "Invalid section number")
    ELSE NoExc

\* _validate_section: the exception raised, or NoExc.
validate_section(cn) ==
    IF ~isdigit(cn) \/ Len(cn) # 5
    THEN Exc("ValueError", "Invalid section number")
    ELSE NoExc

\* Lines 380-438, the try block: the loop state at its end or at the raise.
section_try(cn, t, page) ==
    LET data0 == ("term" :> t) @@ ("class_num" :> cn)
        start0 == [data |-> data0, heading |-> "", raised |-> NoExc]
    IN  IF page.title = "absent"
        THEN [start0 EXCEPT !.raised = Exc("IndexError", "list index out of range")]
        ELSE IF page.title = "nomatch"
        THEN [start0 EXCEPT !.raised = AttributeError("groupdict")]
        ELSE LET data1 == Put(Put(Put(data0, "subject_code", "CS"),
                                  "course_num", "0441"), "section_num", "1010")
                 elements == IF page.room
                             THEN insert(page.divs, RoomIndex, RoomDiv)
                             ELSE page.divs
             IN  detail_loop([start0 EXCEPT !.data = data1], elements, 1, t)

\* SectionDetails(**data), line 441, outside the try: TypeError when a field
\* without a default is missing.
construct(data) ==
    IF RequiredFields \subseteq DOMAIN data
    THEN NoExc
    ELSE Exc("TypeError", "SectionDetails.__new__() missing required positional arguments")

\* The end of get_section, lines 439-441, once the try block ended as `tried`
\* after the requests of `log`: AttributeError becomes "Section doesn't
\* exist", any other exception passes, and SectionDetails(**data) is built.
section_end(tried, log) ==
    IF tried.raised.type = "AttributeError"
    THEN [called |-> TRUE, raised |-> Exc("ValueError", "Section doesn't exist"),
          value |-> EmptyDict, log |-> log]
    ELSE IF tried.raised # NoExc
    THEN [called |-> TRUE, raised |-> tried.raised, value |-> EmptyDict, log |-> log]
    ELSE IF construct(tried.data) # NoExc
    THEN [called |-> TRUE, raised |-> construct(tried.data), value |-> EmptyDict,
          log |-> log]
    ELSE [called |-> TRUE, raised |-> NoExc, value |-> tried.data @@ DefaultFields,
          log |-> log]

\* get_section(class_num, term) against a site that is up or not and serves
\* `page`: the exception raised (NoExc on return), the SectionDetails
\* returned, and the requests issued.
get_section(cn, t, st) ==
    LET request == [method |-> "GET", url |-> <<"classsection/UPITT", t, cn>>]
    IN  IF validate_section(cn) # NoExc
        THEN [called |-> TRUE, raised |-> validate_section(cn),
              value |-> EmptyDict, log |-> <<>>]
        ELSE IF ~st.up
        THEN [called |-> TRUE,
              raised |-> Exc("ConnectionError", "HTTPSConnectionPool: Max retries exceeded"),
              value |-> EmptyDict, log |-> <<request>>]
        ELSE section_end(section_try(cn, t, st.page), <<request>>)

\* The calls of the model: a well-formed class number against a page in one
\* of its forms (divs are missing only from pages whose values are in their
\* usual form), a page with a bad title, or a site that is down; a malformed
\* class number against the base page or a site that is down.
InitDetail ==
    /\ EmbedPages_init({})
    /\ SearchIdle
    /\ CmdIdle
    /\ ApiIdle
    /\ sct_term \in {<<"2", "2", "3", "1">>, <<"2", "2", "3", "2">>}
    /\ \/ /\ class_num = <<"2", "7", "8", "1", "5">>
          /\ \E ro \in BOOLEAN, bad \in {"none", "units", "int"},
                restr \in {"none", "ok", "nodigits", "field"}, comb \in {"none", "ok", "nomatch"} :
                \/ \E d \in DropSets(Len(BaseDivs(bad, restr, comb)), MaxDropped) :
                      /\ bad = "none" \/ d = {}
                      /\ site = [up |-> TRUE,
                                 page |-> DetailPage("ok", ro, bad, restr, comb, d)]
                \/ \E ti \in {"nomatch", "absent"} :
                      site = [up |-> TRUE,
                              page |-> DetailPage(ti, ro, bad, restr, comb, {})]
                \/ site = NoSite
       \/ /\ class_num \in {<<"2", "7", "8", "1">>, <<"2", "7", "8", "1", "x">>}
          /\ site \in {NoSite, [up |-> TRUE, page |-> BasePage]}
    /\ details = NotCalled

\* The call get_section(class_num, sct_term).
CallSection ==
    /\ details = NotCalled
    /\ details' = get_section(class_num, sct_term, site)
    /\ UNCHANGED <<class_num, sct_term, site>>
    /\ UNCHANGED notDetail

NextDetail == CallSection

SpecDetail == InitDetail /\ [][NextDetail]_vars

NextPages ==
    \/ \E v \in Views, u \in Users : start(v, u)
    \/ \E v \in Views, u \in Users, b \in Buttons : Click(v, u, b)
    \/ Dispatch
    \/ \E v \in Views : on_timeout(v)

InitPages ==
    EmbedPages_init({"v1"}) /\ SearchIdle /\ DetailIdle /\ CmdIdle /\ ApiIdle

SpecPages == InitPages /\ [][NextPages]_vars

\* Two invocations, each with its own EmbedPages(page_data): one list of
\* MaxPages embeds, one of two.
InitPair ==
    /\ EmbedPages_init(Views)
    /\ embeds = [v \in Views |-> IF v = "v1" THEN MaxPages ELSE 2]
    /\ SearchIdle /\ DetailIdle /\ CmdIdle /\ ApiIdle

\* The events of the two instances: the first invocation is alice's, the
\* second anyone's; the bot handles one interaction at a time, and one fewer
\* than MaxInFlight wait in the queue.
NextPair ==
    \/ \E v \in Views, u \in Users : (v = "v1" => u = "alice") /\ start(v, u)
    \/ \E v \in Views, u \in Users, b \in Buttons :
          Len(inflight) < MaxInFlight - 1 /\ Click(v, u, b)
    \/ Dispatch
    \/ \E v \in Views : on_timeout(v)

SpecPair == InitPair /\ [][NextPair]_vars

\* ------------------------------------------------------------------------
\* peoplesoft.py: validators and the search calls
\* ------------------------------------------------------------------------
\* What a call comes to: the exception it raised (NoExc when it returned),
\* the value it returned, and the HTTP requests it issued.
Raise(e, log) == [raised |-> e, value |-> EmptyDict, log |-> log]

Return(value, log) == [raised |-> NoExc, value |-> value, log |-> log]

\* _validate_campus
validate_campus(campus) ==
    IF upper(campus) \notin Values(CAMPUSES)
    THEN Raise(Exc("ValueError", "Invalid campus"), <<>>)
    ELSE Return(upper(campus), <<>>)

\* _validate_career
validate_career(career) ==
    IF upper(career) \notin Values(CAREERS)
    THEN Raise(Exc("ValueError", "Invalid career"), <<>>)
    ELSE Return(upper(career), <<>>)

\* _validate_term looking the term up among the names of TERMS as well.
validate_term_names(t) ==
    IF t \notin Values(TERMS) \cup DOMAIN TERMS
    THEN Raise(Exc("ValueError", "Invalid Pitt term"), <<>>)
    ELSE Return(t, <<>>)

\* _validate_term
validate_term(t) ==
    IF t \notin Values(TERMS)
    THEN Raise(Exc("ValueError", "Invalid Pitt term"), <<>>)
    ELSE Return(t, <<>>)

\* _validate_subject
validate_subject(subject) ==
    IF ~isalpha(subject)
    THEN Raise(Exc("ValueError", "Invalid subject"), <<>>)
    ELSE Return(upper(subject), <<>>)

\* _validate_course padding to three characters.
validate_course_pad3(course_num) ==
    IF ~isdigit(course_num)
    THEN Raise(Exc("ValueError", "Invalid course number"), <<>>)
    ELSE IF Len(course_num) < 3
    THEN Return([k \in 1..(3 - Len(course_num)) |-> "0"] \o course_num, <<>>)
    ELSE IF Len(course_num) > 4
    THEN Raise(Exc("ValueError", "Invalid course number"), <<>>)
    ELSE Return(course_num, <<>>)

\* _validate_course
validate_course(course_num) ==
    IF ~isdigit(course_num)
    THEN Raise(Exc("ValueError", "Invalid course number"), <<>>)
    ELSE IF Len(course_num) < 4
    THEN Return([k \in 1..(4 - Len(course_num)) |-> "0"] \o course_num, <<>>)
    ELSE IF Len(course_num) > 4
    THEN Raise(Exc("ValueError", "Invalid course number"), <<>>)
    ELSE Return(course_num, <<>>)

\* The n-th CSRF token PSMobile hands out.
Token(n) == "csrf" \o ToString(n)

\* requests raising because PSMobile cannot be reached.
Unreachable == Exc("ConnectionError", "HTTPSConnectionPool: Max retries exceeded")

GetRequest == [method |-> "GET", url |-> <<"classSearch">>]

PostRequest(payload) ==
    [method |-> "POST", url |-> <<"getClassSearch">>, data |-> payload]

\* _get_payload on one session kept for all calls: the cookie of the first
\* GET stays.
get_payload_kept_session(t, campus, career, subject, course_num, get) ==
    IF ~get.up
    THEN Raise(Unreachable, <<GetRequest>>)
    ELSE IF get.cookie = None
    THEN Raise(Exc("KeyError", "'CSRFCookie'"), <<GetRequest>>)
    ELSE Return([CSRFToken |-> Token(1), term |-> t, campus |-> campus,
                 acad_career |-> career, subject |-> subject,
                 catalog_nbr |-> course_num, class_nbr |-> <<>>],
                <<GetRequest>>)

\* _get_payload on a new session, PSMobile answering the GET with `get`.
get_payload(t, campus, career, subject, course_num, get) ==
    IF ~get.up
    THEN Raise(Unreachable, <<GetRequest>>)
    ELSE IF get.cookie = None
    THEN Raise(Exc("KeyError", "'CSRFCookie'"), <<GetRequest>>)
    ELSE Return([CSRFToken |-> get.cookie, term |-> t, campus |-> campus,
                 acad_career |-> career, subject |-> subject,
                 catalog_nbr |-> course_num, class_nbr |-> <<>>],
                <<GetRequest>>)

\* Line 347 (365): what _parse_class_search came to, after the requests of
\* `log`.
searched(found, log) ==
    IF found.raised # NoExc
    THEN Raise(found.raised, log)
    ELSE Return(found.courses, log)

\* The search with the POST sent once more when a guard of
\* _parse_class_search or the connection failed.
class_search_retry(payload, post, t) ==
    IF payload.raised # NoExc
    THEN payload
    ELSE IF ~post.up
    THEN Raise(Unreachable, payload.log \o <<PostRequest(payload.value),
                                             PostRequest(payload.value)>>)
    ELSE IF guards(post.resp) # NoExc
    THEN Raise(guards(post.resp), payload.log \o <<PostRequest(payload.value),
                                                   PostRequest(payload.value)>>)
    ELSE searched(parse_class_search(post.resp, t),
                  Append(payload.log, PostRequest(payload.value)))

\* session.post(...) with the payload made, PSMobile answering with `post`,
\* and _parse_class_search on the response: lines 346-347 and 364-365.
class_search(payload, post, t) ==
    IF payload.raised # NoExc
    THEN payload
    ELSE IF ~post.up
    THEN Raise(Unreachable, Append(payload.log, PostRequest(payload.value)))
    ELSE searched(parse_class_search(post.resp, t),
                  Append(payload.log, PostRequest(payload.value)))

\* A keyword argument, or the default of the parameter.
Arg(params, key, default) ==
    IF key \in DOMAIN params THEN params[key] ELSE default

\* Line 348: Subject(subject_code=subject, term=term, courses=courses).
Subject(subject, t, found) ==
    IF found.raised # NoExc
    THEN found
    ELSE Return([subject_code |-> subject, term |-> t, courses |-> found.value],
                found.log)

\* get_subject(**params), PSMobile answering as env says.
get_subject(params, env) ==
    LET subject == validate_subject(params["subject"])
        t == Arg(params, "term", TERMS[CURR_TERM])
        campus == validate_campus(Arg(params, "campus", CAMPUSES[MAIN_CAMPUS]))
        career == IF Arg(params, "career", <<>>) # <<>>
                  THEN validate_career(params["career"])
                  ELSE Return(<<>>, <<>>)
    IN  IF subject.raised # NoExc THEN subject
        ELSE IF validate_term(t).raised # NoExc THEN validate_term(t)
        ELSE IF campus.raised # NoExc THEN campus
        ELSE IF career.raised # NoExc THEN career
        ELSE Subject(subject.value, t,
                     class_search(get_payload(t, campus.value, career.value,
                                              subject.value, <<>>, env.get),
                                  env.post, t))

\* Lines 365-368: the first Course of the mapping; a ValueError of the try
\* block, the one of unpacking an empty mapping included, becomes
\* "Course doesn't exist".
first_course(found) ==
    IF found.raised.type = "ValueError" \/ (found.raised = NoExc /\ found.value = <<>>)
    THEN Raise(Exc("ValueError", "Course doesn't exist"), found.log)
    ELSE IF found.raised # NoExc
    THEN found
    ELSE Return(found.value[1], found.log)

\* get_course(**params), PSMobile answering as env says.
get_course(params, env) ==
    LET subject == validate_subject(params["subject"])
        course_num == validate_course(params["course"])
        t == Arg(params, "term", TERMS[CURR_TERM])
        campus == validate_campus(Arg(params, "campus", CAMPUSES[MAIN_CAMPUS]))
    IN  IF subject.raised # NoExc THEN subject
        ELSE IF course_num.raised # NoExc THEN course_num
        ELSE IF validate_term(t).raised # NoExc THEN validate_term(t)
        ELSE IF campus.raised # NoExc THEN campus
        ELSE first_course(
                 class_search(get_payload(t, campus.value, <<>>, subject.value,
                                          course_num.value, env.get),
                              env.post, t))

\* get_subject_names(campus): _get_subject_json looks for the subjects in the
\* text of the class search page and keeps those of the campus.
get_subject_names(campus, get) ==
    IF ~get.up
    THEN Raise(Unreachable, <<GetRequest>>)
    ELSE IF ~get.listed
    THEN Raise(AttributeError("group"), <<GetRequest>>)
    ELSE Return(SelectSeq(get.subjects, LAMBDA code : campus \in code.campuses),
                <<GetRequest>>)

\* ------------------------------------------------------------------------
\* main.py: the commands
\* ------------------------------------------------------------------------
Commands == {"subjects", "courses", "course", "sections", "section"}

\* The words users type after a command.
Tokens ==
    {<<"C", "S">>, <<"4", "4", "1">>, <<"F", "a", "l", "l">>, <<"m", "a", "i", "n">>, <<"g", "r", "a", "d">>, <<"2", "7", "8", "1", "5">>}

ArgLists == UNION {[1..n -> Tokens] : n \in 0..MaxArgs}

\* What PSMobile answers to the GET of the class search page: the CSRFCookie
\* it sets (None when it sets none) and the subjects the page lists.
GoodGet ==
    [up |-> TRUE, cookie |-> "csrf", listed |-> TRUE,
     subjects |-> <<[subject |-> <<"C", "S">>, campuses |-> {<<"P", "I", "T">>, <<"U", "P", "J">>}],
                    [subject |-> <<"F", "O", "R", "S">>, campuses |-> {<<"U", "P", "B">>}]>>]

Gets ==
    {GoodGet, [GoodGet EXCEPT !.up = FALSE], [GoodGet EXCEPT !.cookie = None],
     [GoodGet EXCEPT !.listed = FALSE]}

\* What PSMobile answers to the search POST.
Found(divs) ==
    [up |-> TRUE,
     resp |-> [no_classes |-> FALSE, too_long |-> FALSE, status_code |-> 200,
               divs |-> divs]]

HeaderDiv == [cls |-> "secondary-head", text |-> [kind |-> "header", course_num |-> "0441"]]

SectionDiv(type) ==
    [cls |-> "section-content",
     text |-> [kind |-> "section", type |-> type, waitlist |-> FALSE]]

GoodPost == Found(<<HeaderDiv, SectionDiv("REC"), SectionDiv("LEC")>>)

Posts ==
    {GoodPost, [GoodPost EXCEPT !.up = FALSE],
     [GoodPost EXCEPT !.resp.no_classes = TRUE],
     [GoodPost EXCEPT !.resp.status_code = 503],
     Found(<<>>), Found(<<HeaderDiv>>),
     Found(<<HeaderDiv, [cls |-> "section-content", text |-> JunkText]>>)}

\* What PSMobile answers to the detail GET.
GoodSite == [up |-> TRUE, page |-> BasePage]

Sites ==
    {GoodSite, NoSite,
     [up |-> TRUE, page |-> DetailPage("ok", FALSE, "none", "none", "none", {})]}

GoodEnv == [get |-> GoodGet, post |-> GoodPost, detail |-> GoodSite]

\* PSMobile during one invocation: at most one of its answers goes wrong.
Envs ==
    {env \in [get : Gets, post : Posts, detail : Sites] :
        Cardinality({f \in {"get", "post", "detail"} : env[f] # GoodEnv[f]}) <= 1}

\* [arg.lower() for arg in args]
lowered(a) == [k \in 1..Len(a) |-> lower(a[k])]

\* An invocation so far: the messages sent and the requests issued.
Invoked == [sent |-> <<>>, log |-> <<>>]

\* ctx.send(...)
Send(out, message) == [out EXCEPT !.sent = Append(@, message)]

\* The requests of a call of peoplesoft.py, added to the invocation's.
Did(out, call) == [out EXCEPT !.log = @ \o call.log]

\* handle_err: one message "**<type>: <text>**".
handle_err(out, e) ==
    Send(out, [kind |-> "error", type |-> e.type, text |-> e.message])

\* ViewMenuPages(source).start(ctx) on a ListPageSource of one entry a page:
\* the first page is sent; get_page(0) of no entries raises IndexError.
start_pages(out, entries) ==
    IF entries = 0
    THEN handle_err(out, Exc("IndexError", "list index out of range"))
    ELSE Send(out, [kind |-> "pages", pages |-> entries])

\* ViewMenuPages(source).start(ctx) on a ColumnPages source.
start_columns(out, title, entries) ==
    Send(out, [kind |-> "columns", title |-> title, entries |-> entries])

\* Lines 109-117: the try block of subjects.
subjects_try(out, campus, code, env) ==
    IF get_subject_names(code, env.get).raised # NoExc
    THEN handle_err(Did(out, get_subject_names(code, env.get)),
                    get_subject_names(code, env.get).raised)
    ELSE start_columns(Did(out, get_subject_names(code, env.get)), campus,
                       get_subject_names(code, env.get).value)

\* The subjects command on the lowered arguments a.
subjects_callback(a, env) ==
    IF Len(a) = 1
    THEN IF a[1] \in DOMAIN CAMPUSES
         THEN subjects_try(Invoked, a[1], CAMPUSES[a[1]], env)
         ELSE handle_err(Invoked, Exc("ValueError", "Invalid campus"))
    ELSE IF Len(a) = 0
    THEN subjects_try(Invoked, MAIN_CAMPUS, CAMPUSES[MAIN_CAMPUS], env)
    ELSE handle_err(Invoked, Exc("Exception", "Invalid format"))

\* Lines 143-147 and 164-170: the names among others[k..] stored in params as
\* they were typed.
RECURSIVE store_names(_, _, _, _)
store_names(params, others, k, careers) ==
    IF k > Len(others) THEN params
    ELSE IF others[k] \in DOMAIN TERMS
    THEN store_names(Put(params, "term", others[k]), others, k + 1, careers)
    ELSE IF others[k] \in DOMAIN CAMPUSES
    THEN store_names(Put(params, "campus", others[k]), others, k + 1, careers)
    ELSE IF careers /\ others[k] \in DOMAIN CAREERS
    THEN store_names(Put(params, "career", others[k]), others, k + 1, careers)
    ELSE store_names(params, others, k + 1, careers)

\* Lines 198-208: the try block of courses.
courses_try(out, params, campus, env) ==
    IF get_subject(params, env).raised # NoExc
    THEN handle_err(Did(out, get_subject(params, env)),
                    get_subject(params, env).raised)
    ELSE start_columns(Did(out, get_subject(params, env)), campus,
                       get_subject(params, env).value.courses)

\* The courses command on the lowered arguments a.
courses_callback(a, env) ==
    IF Len(a) = 0
    THEN handle_err(Invoked, Exc("Exception", "No subject provided"))
    ELSE
    LET others == Tail(a)
        num == Len(others)
        subject == "subject" :> a[1]
        two == store_names(subject, others, 1, FALSE)
        three == store_names(subject, others, 1, TRUE)
    IN  IF num = 0
        THEN courses_try(Invoked, subject, MAIN_CAMPUS, env)
        ELSE IF num = 1
        THEN IF others[1] \in DOMAIN TERMS
             THEN courses_try(Invoked, Put(subject, "term", TERMS[others[1]]),
                              MAIN_CAMPUS, env)
             ELSE IF others[1] \in DOMAIN CAMPUSES
             THEN courses_try(Invoked, Put(subject, "campus", CAMPUSES[others[1]]),
                              others[1], env)
             ELSE handle_err(Invoked, Exc("ValueError", "Invalid term/campus"))
        ELSE IF num = 2
        THEN IF Cardinality(DOMAIN two) = num + 1
             THEN courses_try(Invoked, two, MAIN_CAMPUS, env)
             ELSE IF "term" \notin DOMAIN two
             THEN handle_err(Invoked, Exc("ValueError", "Invalid term"))
             ELSE IF "campus" \notin DOMAIN two
             THEN handle_err(Invoked, Exc("ValueError", "Invalid campus"))
             ELSE handle_err(Invoked, Exc("ValueError", "Invalid term and campus"))
        ELSE IF num = 3
        THEN IF Cardinality(DOMAIN three) = num + 1
             THEN courses_try(Invoked, three, MAIN_CAMPUS, env)
             ELSE IF "term" \notin DOMAIN three
             THEN handle_err(Invoked, Exc("ValueError", "Invalid term"))
             ELSE IF "campus" \notin DOMAIN three
             THEN handle_err(Invoked, Exc("ValueError", "Invalid campus"))
             ELSE IF "career" \notin DOMAIN three
             THEN handle_err(Invoked, Exc("ValueError", "Invalid career"))
             ELSE handle_err(Invoked,
                             Exc("ValueError", "Invalid term, campus, and career"))
        ELSE handle_err(Invoked, Exc("ValueError", "Invalid format"))

\* Lines 240-264 (and 325-349): the term and the campus among the arguments
\* after the course number. In "case [arg, _] | [_, arg] if ..." the first
\* alternative matches every list of two, so arg is the first of them.
term_campus(out, params, others) ==
    IF Len(others) = 1 /\ others[1] \in DOMAIN TERMS
    THEN [out |-> out, params |-> Put(params, "term", TERMS[others[1]])]
    ELSE IF Len(others) = 1 /\ others[1] \in DOMAIN CAMPUSES
    THEN [out |-> out, params |-> Put(params, "campus", CAMPUSES[others[1]])]
    ELSE IF Len(others) = 2 /\ others[1] \in DOMAIN TERMS
                            /\ others[2] \in DOMAIN CAMPUSES
    THEN [out |-> out,
          params |-> Put(Put(params, "term", TERMS[others[1]]),
                         "campus", CAMPUSES[others[2]])]
    ELSE IF Len(others) = 2 /\ others[2] \in DOMAIN TERMS
                            /\ others[1] \in DOMAIN CAMPUSES
    THEN [out |-> out,
          params |-> Put(Put(params, "term", TERMS[others[2]]),
                         "campus", CAMPUSES[others[1]])]
    ELSE IF Len(others) = 2 /\ others[1] \in DOMAIN TERMS
    THEN [out |-> handle_err(out, Exc("ValueError", "Invalid campus")),
          params |-> params]
    ELSE IF Len(others) = 2 /\ others[1] \in DOMAIN CAMPUSES
    THEN [out |-> handle_err(out, Exc("ValueError", "Invalid term")),
          params |-> params]
    ELSE IF Len(others) = 0
    THEN [out |-> out, params |-> params]
    ELSE [out |-> handle_err(out, Exc("ValueError", "Incorrect format")),
          params |-> params]

\* Lines 269-273: the first section that is no recitation, else the first.
first_lecture(scts) ==
    IF \E k \in 1..Len(scts) : scts[k].section_type # "REC"
    THEN scts[CHOOSE k \in 1..Len(scts) :
                  /\ scts[k].section_type # "REC"
                  /\ \A j \in 1..(k - 1) : scts[j].section_type = "REC"]
    ELSE scts[1]

\* Lines 278-281: the embed of the section's details is sent.
course_details(out, new_info) ==
    IF new_info.raised # NoExc
    THEN handle_err(Did(out, new_info), new_info.raised)
    ELSE Send(Did(out, new_info), [kind |-> "embed", info |-> new_info.value])

\* Lines 265-281: the try block of course.
course_try(st, info, env) ==
    IF info.raised # NoExc
    THEN handle_err(Did(st.out, info), info.raised)
    ELSE IF info.value.sections = <<>>
    THEN handle_err(Did(st.out, info), Exc("IndexError", "list index out of range"))
    ELSE course_details(Did(st.out, info),
                        get_section(first_lecture(info.value.sections).class_num,
                                    Arg(st.params, "term", TERMS[CURR_TERM]),
                                    env.detail))

\* The course command on the lowered arguments a.
course_callback(a, env) ==
    IF Len(a) >= 2
    THEN course_try(
             term_campus(Invoked, ("subject" :> a[1]) @@ ("course" :> a[2]),
                         SubSeq(a, 3, Len(a))),
             get_course(term_campus(Invoked, ("subject" :> a[1]) @@ ("course" :> a[2]),
                                    SubSeq(a, 3, Len(a))).params, env),
             env)
    ELSE IF Len(a) = 1
    THEN handle_err(Invoked, Exc("Exception", "No course number provided"))
    ELSE handle_err(Invoked, Exc("Exception", "No subject provided"))

\* Lines 350-355: the try block of sections.
sections_try(st, info) ==
    IF info.raised # NoExc
    THEN handle_err(Did(st.out, info), info.raised)
    ELSE start_pages(Did(st.out, info), Len(info.value.sections))

\* The sections command on the lowered arguments a.
sections_callback(a, env) ==
    IF Len(a) >= 2
    THEN sections_try(
             term_campus(Invoked, ("subject" :> a[1]) @@ ("course" :> a[2]),
                         SubSeq(a, 3, Len(a))),
             get_course(term_campus(Invoked, ("subject" :> a[1]) @@ ("course" :> a[2]),
                                    SubSeq(a, 3, Len(a))).params, env))
    ELSE IF Len(a) = 1
    THEN handle_err(Invoked, Exc("Exception", "No course number provided"))
    ELSE handle_err(Invoked, Exc("Exception", "No subject provided"))

\* Lines 418-423: the try block of section; format_section makes two embeds.
section_pages(out, info) ==
    IF info.raised # NoExc
    THEN handle_err(Did(out, info), info.raised)
    ELSE start_pages(Did(out, info), 2)

\* The section command on the lowered arguments a.
section_callback(a, env) ==
    IF Len(a) >= 1
    THEN IF Len(a) = 2 /\ a[2] \in DOMAIN TERMS
         THEN section_pages(Invoked, get_section(a[1], TERMS[a[2]], env.detail))
         ELSE IF Len(a) = 2
         THEN handle_err(Invoked, Exc("ValueError", "Invalid term"))
         ELSE IF Len(a) = 1
         THEN section_pages(Invoked,
                            get_section(a[1], TERMS[CURR_TERM], env.detail))
         ELSE handle_err(Invoked, Exc("ValueError", "Incorrect format"))
    ELSE handle_err(Invoked, Exc("Exception", "No class number provided"))

\* The callback has returned, having sent and requested what `out` says.
Returned(out) ==
    /\ sent' = out.sent
    /\ requests' = out.log
    /\ ran' = TRUE
    /\ UNCHANGED <<command, args>>
    /\ UNCHANGED notCmd

subjects ==
    /\ command = "subjects" /\ ~ran
    /\ \E env \in Envs : Returned(subjects_callback(lowered(args), env))

courses ==
    /\ command = "courses" /\ ~ran
    /\ \E env \in Envs : Returned(courses_callback(lowered(args), env))

course ==
    /\ command = "course" /\ ~ran
    /\ \E env \in Envs : Returned(course_callback(lowered(args), env))

sections ==
    /\ command = "sections" /\ ~ran
    /\ \E env \in Envs : Returned(sections_callback(lowered(args), env))

section ==
    /\ command = "section" /\ ~ran
    /\ \E env \in Envs : Returned(section_callback(lowered(args), env))

\* A user has typed a command with at most MaxArgs arguments.
InitCmd ==
    /\ EmbedPages_init({})
    /\ SearchIdle
    /\ DetailIdle
    /\ ApiIdle
    /\ command \in Commands
    /\ args \in ArgLists
    /\ sent = <<>>
    /\ requests = <<>>
    /\ ran = FALSE

NextCmd == subjects \/ courses \/ course \/ sections \/ section

SpecCmd == InitCmd /\ [][NextCmd]_vars

\* ------------------------------------------------------------------------
\* peoplesoft.py: calls of get_subject, get_course and get_section
\* ------------------------------------------------------------------------
\* Keyword arguments: a parameter left out, or given one of the values.
Keyword(key, values) == {EmptyDict} \cup {key :> v : v \in values}

SubjectParams ==
    {("subject" :> s) @@ t @@ c @@ k :
        s \in {<<"C", "S">>, <<"c", "5">>},
        t \in Keyword("term", {<<"f", "a", "l", "l">>}),
        c \in Keyword("campus", {<<"u", "p", "j">>, <<"m", "a", "i", "n">>}),
        k \in Keyword("career", {<<"u", "g", "r", "d">>, <<"x", "x">>})}

CourseParams ==
    {("subject" :> s) @@ ("course" :> n) @@ t @@ c :
        s \in {<<"C", "S">>, <<"c", "5">>},
        n \in {<<"4", "4", "1">>, <<"4", "4", "1", "0", "0">>, <<"4", "4", "x">>},
        t \in Keyword("term", {<<"f", "a", "l", "l">>}),
        c \in Keyword("campus", {<<"m", "a", "i", "n">>})}

SectionParams ==
    {("class_num" :> n) @@ t :
        n \in {<<"2", "7", "8", "1", "5">>, <<"2", "7", "8", "1">>, <<"2", "7", "8", "1", "x">>},
        t \in Keyword("term", {<<"2", "2", "3", "1">>, <<"2", "2", "3", "2">>, <<"f", "a", "l", "l">>})}

\* PSMobile's answers to the token GET when n tokens were handed out, and to
\* the search POST.
TokenGets(n) ==
    {[GoodGet EXCEPT !.cookie = Token(n + 1)], [GoodGet EXCEPT !.up = FALSE],
     [GoodGet EXCEPT !.cookie = None]}

SearchPosts ==
    {GoodPost, [GoodPost EXCEPT !.up = FALSE],
     [GoodPost EXCEPT !.resp.no_classes = TRUE],
     [GoodPost EXCEPT !.resp.too_long = TRUE],
     [GoodPost EXCEPT !.resp.status_code = 503],
     Found(<<>>),
     Found(<<HeaderDiv, [cls |-> "section-content", text |-> JunkText]>>)}

\* PSMobile during one call: at most one of its answers goes wrong.
SearchEnvs(n) ==
    {[get |-> get, post |-> GoodPost] : get \in TokenGets(n)}
    \cup {[get |-> [GoodGet EXCEPT !.cookie = Token(n + 1)], post |-> post] :
            post \in SearchPosts}

\* A call has ended as `result`; PSMobile has handed out a token if the call
\* made the token GET and the answer to it set the cookie.
Answered(fn, params, result, get) ==
    /\ ncalls' = ncalls + 1
    /\ asked' = [fn |-> fn, params |-> params]
    /\ answer' = [raised |-> result.raised, log |-> result.log]
    /\ before' = IF ncalls = 0 THEN {} ELSE before \cup {answer.raised}
    /\ issued' = IF /\ get.up /\ get.cookie # None
                    /\ \E k \in 1..Len(result.log) : result.log[k] = GetRequest
                 THEN issued + 1
                 ELSE issued
    /\ UNCHANGED notApi

CallGetSubject ==
    /\ ncalls < MaxCalls
    /\ \E params \in SubjectParams, env \in SearchEnvs(issued) :
         Answered("get_subject", params, get_subject(params, env), env.get)

CallGetCourse ==
    /\ ncalls < MaxCalls
    /\ \E params \in CourseParams, env \in SearchEnvs(issued) :
         Answered("get_course", params, get_course(params, env), env.get)

CallGetSection ==
    /\ ncalls < MaxCalls
    /\ \E params \in SectionParams, st \in Sites :
         Answered("get_section", params,
                  get_section(params["class_num"],
                              Arg(params, "term", TERMS[CURR_TERM]), st),
                  [GoodGet EXCEPT !.up = FALSE])

InitApi ==
    /\ EmbedPages_init({})
    /\ SearchIdle
    /\ DetailIdle
    /\ CmdIdle
    /\ ApiIdle

NextApi == CallGetSubject \/ CallGetCourse \/ CallGetSection

SpecApi == InitApi /\ [][NextApi]_vars

\* ------------------------------------------------------------------------
\* peoplesoft.py: the validators on strings of at most MaxLen characters
\* ------------------------------------------------------------------------
Alphabet == {"2", "4", "x"}

Strings == UNION {[1..n -> Alphabet] : n \in 0..MaxLen}

InitValid ==
    /\ EmbedPages_init({})
    /\ SearchIdle
    /\ DetailIdle
    /\ CmdIdle
    /\ ncalls = 0 /\ asked = NotAsked /\ answer = NoAnswer /\ before = {} /\ issued = 0
    /\ given \in [fn : {"_validate_course", "_validate_section"}, arg : Strings]
                \cup [fn : {"_validate_term"},
                      arg : Strings \cup Values(TERMS) \cup DOMAIN TERMS]
    /\ checked = NotCalled

\* A validator has returned `value` or raised.
Validated(raised, value) ==
    /\ checked' = [called |-> TRUE, raised |-> raised, value |-> value]
    /\ UNCHANGED given
    /\ UNCHANGED notValid

\* _validate_course(given.arg)
CallValidateCourse ==
    /\ given.fn = "_validate_course" /\ checked = NotCalled
    /\ Validated(validate_course(given.arg).raised, validate_course(given.arg).value)

\* _validate_section(given.arg); it returns None.
CallValidateSection ==
    /\ given.fn = "_validate_section" /\ checked = NotCalled
    /\ Validated(validate_section(given.arg), <<>>)

\* _validate_term(given.arg); it returns None.
CallValidateTerm ==
    /\ given.fn = "_validate_term" /\ checked = NotCalled
    /\ Validated(validate_term(given.arg).raised, <<>>)

NextValid == CallValidateCourse \/ CallValidateSection \/ CallValidateTerm

SpecValid == InitValid /\ [][NextValid]_vars

\* ------------------------------------------------------------------------
\* Properties of the paginator
\* ------------------------------------------------------------------------
Started(v) == v \in views /\ msg[v].sent

\* C1: a started paginator over N >= 1 pages that only ever handled button
\* events whose control was enabled has 0 <= curr_page <= N-1, and the page
\* on display is that page.
C1_PageInRange ==
    \A v \in Views :
        (Started(v) /\ ~stale[v]) =>
            /\ 0 <= curr_page[v] /\ curr_page[v] <= embeds[v] - 1
            /\ msg[v].page = curr_page[v]

\* C1 witness: on three pages, Next twice and Previous once, all while enabled.
C1_Witness ==
    \E v \in Views :
        /\ Started(v) /\ ~stale[v] /\ embeds[v] = 3 /\ curr_page[v] = 1
        /\ handled.view = v /\ handled.btn = "prev" /\ handled.outcome = "edited"

\* C2: in a started, not yet expired paginator the Previous control is
\* disabled if and only if curr_page = 0 (as claimed, for any event sequence).
C2_PrevDisabledIffFirst ==
    \A v \in Views :
        (Started(v) /\ ~finished[v]) => (prev_disabled[v] <=> curr_page[v] = 0)

\* C3: in a started, not yet expired paginator the Next control is disabled
\* if and only if curr_page = N-1 (as claimed, for any event sequence).
C3_NextDisabledIffLast ==
    \A v \in Views :
        (Started(v) /\ ~finished[v]) =>
            (next_disabled[v] <=> curr_page[v] = embeds[v] - 1)

\* C4: dispatching a button event of a user other than the one who started
\* the paginator runs no callback: it is rejected by interaction_check (or
\* dropped, once the view expired) and curr_page, both disabled flags and the
\* message stay as they are.
C4_ForeignEventNoOp ==
    [][\A v \in Views :
          (/\ Started(v)
           /\ inflight # <<>>
           /\ Head(inflight).view = v
           /\ Head(inflight).user # user[v]
           /\ inflight' = Tail(inflight))
          => /\ curr_page'[v] = curr_page[v]
             /\ prev_disabled'[v] = prev_disabled[v]
             /\ next_disabled'[v] = next_disabled[v]
             /\ msg'[v] = msg[v]
             /\ handled'.outcome = IF finished[v] THEN "dropped" ELSE "rejected"]_vars

\* C4 witness: a Next event of another user was rejected on a live paginator
\* that has pages to move to.
C4_Witness ==
    \E v \in Views :
        /\ Started(v) /\ ~finished[v] /\ ~next_disabled[v]
        /\ handled.view = v /\ handled.btn = "next"
        /\ handled.user # user[v] /\ handled.outcome = "rejected"

\* C5: once on_timeout ran, the view holds no control, the message shows none,
\* and no later step changes curr_page or the message again.
C5_ExpiredIsTerminal ==
    /\ [](\A v \in Views : finished[v] => (children[v] = {} /\ msg[v].items = {}))
    /\ [][\A v \in Views :
             finished[v] => /\ finished'[v]
                            /\ curr_page'[v] = curr_page[v]
                            /\ msg'[v] = msg[v]]_vars

\* C5 witness: a button event that was in flight when the view expired was
\* dispatched afterwards and dropped.
C5_Witness ==
    \E v \in Views :
        /\ finished[v] /\ handled.view = v /\ handled.user = user[v]
        /\ handled.outcome = "dropped"

\* ------------------------------------------------------------------------
\* Properties of search-result extraction
\* ------------------------------------------------------------------------
Called == parsed # NotCalled

NoResults == Exc("ValueError", "Criteria didn't find any classes")

Unmatched(div) ==
    /\ div.cls = "section-content"
    /\ WAITLIST_REGEX(div.text) = NoMatch
    /\ SECTION_REGEX(div.text) = NoMatch

\* The response with every unmatched section block replaced by a div that
\* the extraction has nothing to do with.
WithoutUnmatched(r) ==
    [r EXCEPT !.divs = [k \in 1..Len(r.divs) |->
        IF Unmatched(r.divs[k])
        THEN [cls |-> "other", text |-> JunkText]
        ELSE r.divs[k]]]

\* C7: a section block matching neither layout is skipped (as claimed): the
\* extraction ends as it does on the response without that block, with the
\* courses and sections of all other blocks and no error of its own.
C7_UnmatchedSectionSkipped ==
    (Called /\ \E k \in 1..Len(resp.divs) : Unmatched(resp.divs[k])) =>
        /\ parsed.raised = parse_class_search(WithoutUnmatched(resp), term).raised
        /\ parsed.courses = parse_class_search(WithoutUnmatched(resp), term).courses

\* C8: a response carrying the no-classes marker makes the extraction raise
\* ValueError("Criteria didn't find any classes"), whatever the time-out
\* marker, the HTTP status and the divs are.
C8_NoClassesAlwaysNoResults ==
    (Called /\ resp.no_classes) =>
        (parsed.raised = NoResults /\ parsed.courses = <<>>)

\* C8 witness: the marker together with the time-out marker, a failure status
\* and a well-formed course with a section.
C8_Witness ==
    /\ Called /\ resp.no_classes /\ resp.too_long /\ resp.status_code = 503
    /\ Len(resp.divs) >= 2
    /\ resp.divs[1].cls = "secondary-head" /\ resp.divs[1].text.kind = "header"
    /\ resp.divs[2].cls = "section-content" /\ resp.divs[2].text.kind = "section"
    /\ parsed.raised = NoResults

\* C9 as claimed: every response with the time-out marker yields TimeoutError,
\* every response with a failure status and neither marker yields
\* ConnectionError, and in both cases nothing is built.
C9_AsClaimed ==
    /\ (Called /\ resp.too_long) =>
           /\ parsed.raised.type = "TimeoutError"
           /\ parsed.built = 0 /\ parsed.courses = <<>>
    /\ (Called /\ resp.status_code # 200 /\ ~resp.no_classes /\ ~resp.too_long) =>
           /\ parsed.raised.type = "ConnectionError"
           /\ parsed.built = 0 /\ parsed.courses = <<>>

\* C9, amended: a response with the time-out marker and without the
\* no-classes marker yields TimeoutError, a response with a status other than
\* 200 and neither marker yields ConnectionError, and whenever a guard raises
\* no Course or Section was built and none is returned.
C9_GuardsBeforeParsing ==
    /\ (Called /\ resp.too_long /\ ~resp.no_classes) =>
           parsed.raised = Exc("TimeoutError", "Search response took too long")
    /\ (Called /\ resp.status_code # 200 /\ ~resp.no_classes /\ ~resp.too_long) =>
           parsed.raised = Exc("ConnectionError", "PeopleSoft is unavailable")
    /\ (Called /\ (resp.no_classes \/ resp.too_long \/ resp.status_code # 200)) =>
           (parsed.built = 0 /\ parsed.courses = <<>>)

\* C9 witness: the time-out marker on a 200 response whose divs hold a
\* well-formed course with a section.
C9_Witness ==
    /\ Called /\ resp.too_long /\ ~resp.no_classes /\ resp.status_code = 200
    /\ Len(resp.divs) >= 2
    /\ resp.divs[1].cls = "secondary-head" /\ resp.divs[1].text.kind = "header"
    /\ resp.divs[2].cls = "section-content" /\ resp.divs[2].text.kind = "section"
    /\ parsed.raised.type = "TimeoutError"

\* The try block of get_section ran to its end on the page served and left a
\* field of SectionDetails without a default unset.
RequiredFieldMissing ==
    /\ details.called /\ site.up /\ validate_section(class_num) = NoExc
    /\ section_try(class_num, sct_term, site.page).raised = NoExc
    /\ ~(RequiredFields \subseteq DOMAIN section_try(class_num, sct_term, site.page).data)

\* C10: when a required field of the section record was never found on the
\* page, get_section raises ValueError("Section doesn't exist") and no other
\* kind of error (as claimed).
C10_MissingFieldIsSectionNotFound ==
    RequiredFieldMissing =>
        details.raised = Exc("ValueError", "Section doesn't exist")

\* ------------------------------------------------------------------------
\* Properties of the commands
\* ------------------------------------------------------------------------
\* The invocation reported an error.
ReportedError == ran /\ \E k \in 1..Len(sent) : sent[k].kind = "error"

\* C6: an invocation that reports an error sends exactly one message, the
\* error message, and nothing after it (as claimed), whatever the command and
\* its arguments are.
C6_OneMessagePerError ==
    ReportedError => (Len(sent) = 1 /\ sent[1].kind = "error")

\* ------------------------------------------------------------------------
\* Properties of the calls of get_subject, get_course and get_section
\* ------------------------------------------------------------------------
\* The exceptions the validators raise, by their messages, and those of a
\* search that found nothing and of a section that does not exist.
InvalidInput ==
    {"Invalid campus", "Invalid career", "Invalid Pitt term", "Invalid subject",
     "Invalid course number", "Invalid section number"}

NotFound ==
    {"Criteria didn't find any classes", "Course doesn't exist",
     "Section doesn't exist"}

\* The exceptions raised by the calls made so far.
RaisedSoFar == IF ncalls = 0 THEN {} ELSE before \cup {answer.raised}

\* C11: the kind of a validation error differs from the kind of a no-results
\* or section-not-found error (as claimed): no two calls raise one of each
\* with the same exception class.
C11_DistinctErrorKinds ==
    \A e \in RaisedSoFar, f \in RaisedSoFar :
        (e.message \in InvalidInput /\ f.message \in NotFound) => e.type # f.type

\* ------------------------------------------------------------------------
\* Properties of the validators
\* ------------------------------------------------------------------------
Validating(fn) == given.fn = fn /\ checked # NotCalled

\* Every character of str is a decimal digit (true of the empty string).
AllDigits(str) == \A k \in 1..Len(str) : str[k] \in Digits

C14_TermInTable ==
    Validating("_validate_term") =>
        /\ checked.raised = NoExc <=>
               given.arg \in {<<"2", "2", "3", "1">>, <<"2", "2", "2", "4">>, <<"2", "2", "2", "7">>}
        /\ checked.raised # NoExc =>
               checked.raised = Exc("ValueError", "Invalid Pitt term")

\* C14 witness: the name "fall" was rejected.
C14_Witness ==
    /\ Validating("_validate_term")
    /\ given.arg = <<"f", "a", "l", "l">>
    /\ checked.raised = Exc("ValueError", "Invalid Pitt term")

\* The places of the search POSTs and of the GETs among the requests of the
\* last call.
PostsOf(log) == {k \in 1..Len(log) : log[k].method = "POST"}

GetsOf(log) == {k \in 1..Len(log) : log[k].method = "GET"}

\* C15: every search POST of a get_subject or get_course call carries the
\* token handed out to the one token GET of that same call, which precedes
\* it; no POST carries a token of an earlier call.
C15_TokenOfSameCall ==
    (asked.fn \in {"get_subject", "get_course"}) =>
        /\ Cardinality(GetsOf(answer.log)) <= 1
        /\ \A k \in PostsOf(answer.log) :
              /\ GetsOf(answer.log) = {k - 1}
              /\ answer.log[k - 1] = GetRequest
              /\ answer.log[k].data.CSRFToken = Token(issued)
              /\ \A n \in 1..(issued - 1) :
                    answer.log[k].data.CSRFToken # Token(n)

\* C15 witness: a second call whose POST carries the second token.
C15_Witness ==
    /\ ncalls = 2 /\ issued = 2
    /\ asked.fn = "get_course"
    /\ PostsOf(answer.log) = {2}
    /\ answer.log[2].data.CSRFToken = Token(2)

Untouched(w) ==
    /\ curr_page'[w] = curr_page[w]
    /\ user'[w] = user[w]
    /\ prev_disabled'[w] = prev_disabled[w]
    /\ next_disabled'[w] = next_disabled[w]
    /\ children'[w] = children[w]
    /\ msg'[w] = msg[w]

\* C17: two paginator instances are independent. A step that handles a button
\* event of instance v (the bot takes it from the queue) or that expires v
\* leaves the curr_page, the user, the disabled flags, the items and the
\* message of every other instance unchanged.
C17_InstancesIndependent ==
    [][\A v \in Views :
          (\/ inflight # <<>> /\ inflight' = Tail(inflight) /\ Head(inflight).view = v
           \/ finished'[v] /\ ~finished[v])
          => \A w \in Views \ {v} : Untouched(w)]_vars

\* C17 witness: both instances started, v2 on its second page, and a Next of
\* v1 has just been handled, v1 now on its third page.
C17_Witness ==
    /\ user["v1"] # None /\ user["v2"] # None
    /\ handled.view = "v1" /\ handled.btn = "next" /\ handled.outcome = "edited"
    /\ curr_page["v1"] = 2
    /\ curr_page["v2"] = 1

\* The divs of the response that are course headers.
Headers == {h \in 1..Len(resp.divs) : resp.divs[h].cls = "secondary-head"}

\* The header that started the Course the returned mapping holds at place k:
\* the last header with its course number (an earlier Course stored under
\* the same number was replaced by it).
StartedBy(k) ==
    CHOOSE h \in Headers :
        /\ resp.divs[h].text.course_num = parsed.courses[k].course_num
        /\ \A g \in Headers :
              resp.divs[g].text.course_num = parsed.courses[k].course_num => g <= h

\* The section blocks whose nearest preceding header is h.
Following(h) ==
    {j \in (h + 1)..Len(resp.divs) :
        /\ resp.divs[j].cls = "section-content"
        /\ \A g \in Headers : ~(h < g /\ g < j)}

\* The members of a set of numbers in increasing order.
Ascending(set) ==
    CHOOSE f \in [1..Cardinality(set) -> set] :
        \A a, b \in 1..Cardinality(set) : a < b => f[a] < f[b]

\* The Section a matching section block number j gives.
SectionOf(j) ==
    Section(IF WAITLIST_REGEX(resp.divs[j].text) = NoMatch
            THEN SECTION_REGEX(resp.divs[j].text)
            ELSE WAITLIST_REGEX(resp.divs[j].text), j, term)

\* C18 (as claimed): when the extraction returns, every header's course
\* number is a key of the mapping; the Course at each place holds exactly the
\* sections of the blocks between its header and the next header, in
\* encounter order; and the courses appear in the order of their headers.
C18_CoursesInHeaderOrder ==
    (Called /\ parsed.raised = NoExc) =>
        /\ \A h \in Headers : \E k \in 1..Len(parsed.courses) :
              parsed.courses[k].course_num = resp.divs[h].text.course_num
        /\ \A k \in 1..Len(parsed.courses) :
              parsed.courses[k].sections =
                  [n \in 1..Cardinality(Following(StartedBy(k))) |->
                      SectionOf(Ascending(Following(StartedBy(k)))[n])]
        /\ \A k, l \in 1..Len(parsed.courses) :
              k < l => StartedBy(k) < StartedBy(l)

\* C19: a step that starts a paginator for user u ends with curr_page = 0,
\* the message sent and showing page 0, and u recorded as the user: u, and no
\* other user, passes interaction_check.
C19_StartsOnFirstPage ==
    [][\A v \in Views, u \in Users :
          start(v, u) =>
              /\ curr_page'[v] = 0
              /\ msg'[v].sent /\ msg'[v].page = 0
              /\ user'[v] = u
              /\ \A w \in Users : interaction_check(v, w)' <=> (w = u)]_vars

\* C19 witness: a paginator over three pages that bob has just started.
C19_Witness ==
    /\ Started("v1") /\ embeds["v1"] = 3 /\ user["v1"] = "bob"
    /\ msg["v1"].page = 0 /\ curr_page["v1"] = 0
    /\ handled = NoHandled /\ inflight = <<>>

\* The heading in force at div number j of the page: the text of the nearest
\* div before it that has a role ("" when there is none).
HeadingAt(divs, j) ==
    IF \E h \in 1..(j - 1) : divs[h].role
    THEN divs[CHOOSE h \in 1..(j - 1) :
                  divs[h].role /\ \A g \in (h + 1)..(j - 1) : ~divs[g].role].label
    ELSE ""

\* The label/content divs under the heading "Enrollment Restrictions".
Restricted(divs) ==
    {j \in 1..Len(divs) :
        /\ ~divs[j].role
        /\ divs[j].rest # <<>>
        /\ HeadingAt(divs, j) = "Enrollment Restrictions"}

\* The call on the same page without those divs.
Unrestricted ==
    get_section(class_num, sct_term,
                [site EXCEPT !.page.divs = Without(@, Restricted(@), 1)])

\* C20: when get_section returns, every label/content div under the heading
\* "Enrollment Restrictions" has given seat_restrictions the entry label ->
\* first integer of its content, seat_restrictions has no other entry, and
\* every other field of the record is what the page without those divs gives.
C20_RestrictionsOnlySetSeatRestrictions ==
    (details # NotCalled /\ details.raised = NoExc
        /\ Restricted(site.page.divs) # {}) =>
        /\ DOMAIN details.value["seat_restrictions"] =
              {site.page.divs[j].label : j \in Restricted(site.page.divs)}
        /\ \A j \in Restricted(site.page.divs) :
              details.value["seat_restrictions"][site.page.divs[j].label] =
                  int(FirstInt(site.page.divs[j].rest[1]))
        /\ Unrestricted.raised = NoExc
        /\ \A f \in DOMAIN details.value \ {"seat_restrictions"} :
              details.value[f] = Unrestricted.value[f]

\* C20 witness: 'Veterans' with '12 of 20 open' and 'Seats Open' with '8'
\* under Enrollment Restrictions, on a page whose Seats Open field is 15.
C20_Witness ==
    /\ details # NotCalled /\ details.raised = NoExc
    /\ Cardinality(Restricted(site.page.divs)) = 2
    /\ details.value["seat_restrictions"] = ("Veterans" :> 12) @@ ("Seats Open" :> 8)
    /\ details.value["seats_open"] = 15

\* The divs the loop of get_section goes over: those of the page, with the
\* room div spliced in when the page has the room link.
Elements ==
    IF site.page.room THEN insert(site.page.divs, RoomIndex, RoomDiv)
    ELSE site.page.divs

\* The label/content divs under a heading other than "Combined Section" and
\* "Enrollment Restrictions".
Labelled(divs) ==
    {j \in 1..Len(divs) :
        /\ ~divs[j].role
        /\ divs[j].rest # <<>>
        /\ HeadingAt(divs, j) \notin {"Combined Section", "Enrollment Restrictions"}}

\* The call on the same page without the divs of Labelled whose label is not
\* in LABEL_MAP.
WithoutUnknown ==
    get_section(class_num, sct_term,
        [site EXCEPT !.page.divs =
            Without(@, {j \in Labelled(@) : @[j].label \notin DOMAIN LABEL_MAP}, 1)])

\* The divs of Labelled whose label is in LABEL_MAP and whose field no later
\* such div sets again.
LastSetting(divs) ==
    {j \in Labelled(divs) :
        /\ divs[j].label \in DOMAIN LABEL_MAP
        /\ \A k \in Labelled(divs) :
              (k > j /\ divs[k].label \in DOMAIN LABEL_MAP)
                  => LABEL_MAP[divs[k].label] # LABEL_MAP[divs[j].label]}

\* C21: when get_section returns, every label/content div under a heading
\* other than "Combined Section" and "Enrollment Restrictions" whose label is
\* in LABEL_MAP has set the mapped field (the record holds what the last div
\* of a field set): the fields of SCT_DETAIL_INT_FIELD
\* (waitlist_size from "Wait List Total", total_capacity from "Class Capacity"
\* and from "Combined Section Capacity") hold the content as an integer,
\* components the parts between ", ", units the number before " units", attrs
\* the lines, every other field the content; and the record is the one the
\* page gives without the divs whose label is not in LABEL_MAP.
C21_LabelTableSetsFields ==
    (details # NotCalled /\ details.raised = NoExc) =>
        /\ \A j \in LastSetting(Elements) :
              LET div == Elements[j]
              IN  div.label \in DOMAIN LABEL_MAP =>
                    LET field == LABEL_MAP[div.label]
                    IN  IF field \in SCT_DETAIL_INT_FIELD
                        THEN details.value[field] = Decimal(div.rest[1])
                        ELSE IF field = "components"
                        THEN details.value[field] = split_comma(div.rest[1], <<>>)
                        ELSE IF field = "units"
                        THEN details.value[field] = UnitsSearch(div.rest[1])
                        ELSE IF field = "attrs"
                        THEN details.value[field] = div.rest
                        ELSE details.value[field] = div.rest[1]
        /\ \A j \in LastSetting(Elements) :
              /\ Elements[j].label = "Wait List Total" => details.value["waitlist_size"] = 7
              /\ Elements[j].label \in {"Class Capacity", "Combined Section Capacity"} =>
                    details.value["total_capacity"] = 45
        /\ details.value = WithoutUnknown.value

\* C21 witness: a returned record of a page with "Combined Section Capacity"
\* 45, "Wait List Total" 7 and the label "Instruction Mode", which is not in
\* LABEL_MAP.
C21_Witness ==
    /\ details # NotCalled /\ details.raised = NoExc
    /\ \E j \in Labelled(Elements) : Elements[j].label = "Combined Section Capacity"
    /\ \E j \in Labelled(Elements) : Elements[j].label = "Wait List Total"
    /\ \E j \in Labelled(Elements) : Elements[j].label = "Instruction Mode"
    /\ details.value["total_capacity"] = 45
    /\ details.value["waitlist_size"] = 7

\* The step hands the oldest interaction, of button b on view v, to the
\* button's callback: it was neither dropped nor rejected.
Reaches(v, b) ==
    /\ inflight # <<>>
    /\ inflight' = Tail(inflight)
    /\ Head(inflight).view = v
    /\ Head(inflight).btn = b
    /\ handled'.outcome \notin {"dropped", "rejected"}

\* C22 (as claimed): a Previous event that reaches its callback while
\* curr_page = 0, and a Next event that reaches it while curr_page = N-1,
\* leave curr_page unchanged.
C22_EdgeEventsLeavePage ==
    [][\A v \in Views :
          /\ (Reaches(v, "prev") /\ curr_page[v] = 0)
                => curr_page'[v] = curr_page[v]
          /\ (Reaches(v, "next") /\ curr_page[v] = embeds[v] - 1)
                => curr_page'[v] = curr_page[v]]_vars

\* The errors the validators give for the identifiers supplied to the call
\* `asked`: for each keyword supplied, what its validator raises on it.
Failing ==
    {e \in
        (IF "subject" \in DOMAIN asked.params
         THEN {validate_subject(asked.params["subject"]).raised} ELSE {})
        \cup (IF "course" \in DOMAIN asked.params
              THEN {validate_course(asked.params["course"]).raised} ELSE {})
        \cup (IF "term" \in DOMAIN asked.params
              THEN {validate_term(asked.params["term"]).raised} ELSE {})
        \cup (IF "campus" \in DOMAIN asked.params
              THEN {validate_campus(asked.params["campus"]).raised} ELSE {})
        \cup (IF "career" \in DOMAIN asked.params
              THEN {validate_career(asked.params["career"]).raised} ELSE {})
        \cup (IF "class_num" \in DOMAIN asked.params
              THEN {validate_section(asked.params["class_num"])} ELSE {}) :
        e # NoExc}

\* C23 (as claimed): a call of get_subject, get_course or get_section with
\* an identifier that fails its validator raises a validator's error, as the
\* validator raised it, and has issued no HTTP request.
C23_ValidationBeforeNetwork ==
    (ncalls > 0 /\ Failing # {}) =>
        /\ answer.raised \in Failing
        /\ answer.log = <<>>

\* C24 (as claimed): get_section called with a term that is not a value of
\* TERMS raises the error _validate_term gives, as get_subject and
\* get_course do, and has not requested the detail page.
C24_SectionTermValidated ==
    (asked.fn = "get_section" /\ "term" \in DOMAIN asked.params
        /\ asked.params["term"] \notin Values(TERMS)) =>
        /\ answer.raised.type = "ValueError"
        /\ answer.raised.message \in InvalidInput
        /\ GetsOf(answer.log) = {}

\* The courses command takes the lowered arguments a as a subject followed
\* by names it recognises: none of its own error branches is entered.
Accepted(a) ==
    /\ Len(a) \in 2..4
    /\ Len(a) = 2 => a[2] \in DOMAIN TERMS \cup DOMAIN CAMPUSES
    /\ Len(a) = 3 =>
          Cardinality(DOMAIN store_names("subject" :> a[1], Tail(a), 1, FALSE)) = 3
    /\ Len(a) = 4 =>
          Cardinality(DOMAIN store_names("subject" :> a[1], Tail(a), 1, TRUE)) = 4

\* C25 (as claimed): when the courses command accepts its arguments, no
\* message it sends is the error of _validate_term, _validate_campus or
\* _validate_career.
C25_AcceptedArgsPassValidation ==
    (command = "courses" /\ ran /\ Accepted(lowered(args))) =>
        \A k \in 1..Len(sent) :
            ~(/\ sent[k].kind = "error"
              /\ sent[k].text \in {"Invalid Pitt term", "Invalid campus",
                                    "Invalid career"})

\* The number of Sections in the courses of the mapping returned, from the
\* k-th course on.
RECURSIVE SectionCount(_, _)
SectionCount(found, k) ==
    IF k > Len(found) THEN 0
    ELSE Len(found[k].sections) + SectionCount(found, k + 1)

\* C26 (as claimed): when the extraction returns, the Sections of all the
\* Courses of the mapping are as many as the section-content divs of the
\* response (each of them matched a layout, or the call had raised).
C26_NoSectionLost ==
    (Called /\ parsed.raised = NoExc) =>
        SectionCount(parsed.courses, 1) =
            Cardinality({j \in 1..Len(resp.divs) :
                            resp.divs[j].cls = "section-content"})

====
